---- MODULE Spec2Model ----
(***************************************************************************)
(* Event pipeline of the retail analytics backend: the bulk ingestion      *)
(* endpoint POST /v1/events/bulk over the events table, and the footfall   *)
(* aggregations that read that table.                                      *)
(***************************************************************************)
EXTENDS Integers, Sequences, FiniteSets, TLC

\* ------------------------------------------------------------------ bounds
\* number of bulk requests a behaviour contains (they may overlap in time)
MaxRequests == 2
\* largest number of events in one bulk request
MaxBatch == 2

Requests == 1..MaxRequests

\* ------------------------------------------------------- database fixtures
\* edge_keys rows: the credential a Bearer token resolves to
edge_keys ==
  { [token |-> "t1", org_id |-> "o1", store_id |-> "s1", camera_id |-> "none", active |-> TRUE],
    [token |-> "t2", org_id |-> "o1", store_id |-> "s1", camera_id |-> "c1",   active |-> TRUE],
    [token |-> "t3", org_id |-> "o2", store_id |-> "s2", camera_id |-> "none", active |-> TRUE],
    [token |-> "t4", org_id |-> "o1", store_id |-> "s1", camera_id |-> "none", active |-> FALSE] }

Tokens == {k.token : k \in edge_keys}

\* cameras_extended rows
cameras ==
  { [camera_id |-> "c1", store_id |-> "s1", is_entrance |-> TRUE],
    [camera_id |-> "c2", store_id |-> "s1", is_entrance |-> FALSE],
    [camera_id |-> "c3", store_id |-> "s2", is_entrance |-> TRUE] }

\* ------------------------------------------------------------ wire events
\* V1IngestEvent: ts travels as a string; valid says whether
\* datetime.fromisoformat accepts it, t is the instant it denotes.
V1IngestEvent(id, org, store, cam, type, valid, t, dir) ==
  [event_id |-> id, org_id |-> org, store_id |-> store, camera_id |-> cam,
   type |-> type, ts |-> [valid |-> valid, t |-> t],
   payload |-> [direction |-> dir]]

\* the events an edge may put in a request
WireEvents ==
  { V1IngestEvent("a", "o1", "s1", "c1", "entrance",   TRUE,  1, "in"),
    V1IngestEvent("b", "o1", "s1", "c2", "entrance",   TRUE,  1, "in"),
    V1IngestEvent("c", "o2", "s2", "c3", "entrance",   TRUE,  1, "in"),
    V1IngestEvent("a", "o2", "s2", "c3", "zone_dwell", TRUE,  2, "none"),
    V1IngestEvent("b", "o1", "s1", "c1", "entrance",   FALSE, 0, "in") }

\* V1EventsBulkRequest.events
Batches == UNION {[1..n -> WireEvents] : n \in 0..MaxBatch}

\* -------------------------------------------------------------------- state
VARIABLES
  events,      \* committed rows of the events table
  pc,          \* per request: "idle", "loop", "commit", "done"
  auth,        \* per request: result of authenticate_edge
  req,         \* per request: req.events
  idx,         \* per request: position of the for loop (1-based)
  inserted,    \* per request: the handler's counter
  duplicates,  \* per request: the handler's counter
  db,          \* per request: rows flushed in the session's open transaction
  status,      \* per request: HTTP status of the response (0 while running)
  added,       \* per request: rows its commit added to the table
  before       \* per request: requests already answered when it arrived

ingest_vars == <<events, pc, auth, req, idx, inserted, duplicates, db, status,
                 added, before>>

\* the last answer of the aggregation layer
VARIABLES report

\* the edge runtime's outbound pipeline (edge_runtime_v2.py, main and
\* EventFlusher)
VARIABLES
  out_q,        \* main's out_q: the bounded queue.Queue between the threads
  putting,      \* per worker: the event its out.put call holds, or NoEvent
  seq,          \* per worker: events it has emitted so far
  buf,          \* EventFlusher.run's local buf
  spool,        \* lines of buffer/event_buffer.jsonl
  fpc,          \* EventFlusher: "get", "flush", "drain", "stopped", "dead"
  running,      \* the .running flag of each worker and of the flusher
  main_pc,      \* main: "sleeping", "shutdown" (flags cleared), "exited"
  net,          \* the bulk endpoint: "up" answers 2xx, "down" does not
  posted,       \* history: events of the POSTs answered 2xx, in order
  taken,        \* history: events the flusher has taken from out_q
  at_shutdown,  \* history: events in out_q or buf when shutdown was requested
  post_failed,  \* history: some post_with_retry returned False
  last_post,    \* history: the last post_with_retry call of the flusher
  overdue       \* time.monotonic() - last_flush > BATCH_SECONDS

pipe_vars == <<out_q, putting, seq, buf, spool, fpc, running, main_pc, net,
               posted, taken, at_shutdown, post_failed, last_post, overdue>>

\* one CameraWorker's frame loop (edge_runtime_v2.py, CameraWorker)
VARIABLES
  now,          \* current_time of the latest frame, in milliseconds
  frames,       \* frames processed so far
  tracks,       \* self.tracks: track_id -> PersonTrack
  frame_out,    \* the events the latest frame put on self.out, in order
  entrances,    \* history, per track id: entrance events since its creation
  crossings,    \* history, per track id: line crossings since its creation
  worker_cfg    \* self.cfg: the worker's camera_id, capabilities, geometry

track_vars == <<now, frames, tracks, frame_out, entrances, crossings,
                worker_cfg>>

\* one EdgeClient (edge_client_v2.py)
VARIABLES
  offline_queue,  \* self.offline_queue
  client_call     \* history: the last call of send_events or
                  \* flush_offline_queue, with the answers to its POSTs

client_vars == <<offline_queue, client_call>>

vars == <<ingest_vars, report, pipe_vars, track_vars, client_vars>>

\* what the ingestion endpoint leaves alone
outside_ingest == <<report, pipe_vars, track_vars, client_vars>>
\* what the aggregation layer leaves alone (it only reads events)
outside_events == <<pc, auth, req, idx, inserted, duplicates, db, status, added,
                    before, pipe_vars, track_vars, client_vars>>
\* what the outbound pipeline leaves alone
outside_pipe == <<ingest_vars, report, track_vars, client_vars>>
\* what a camera worker's frame loop leaves alone
outside_tracks == <<ingest_vars, report, pipe_vars, client_vars>>
\* what an EdgeClient leaves alone
outside_client == <<ingest_vars, report, pipe_vars, track_vars>>

NoAuth == [org_id |-> "none", store_id |-> "none", camera_id |-> "none"]

\* authenticate_edge: the active edge key with this token, or 401
authenticate_edge(token) ==
  LET found == {k \in edge_keys : k.token = token /\ k.active = TRUE}
  IN  IF found = {}
      THEN [code |-> 401, scope |-> NoAuth]
      ELSE LET k == CHOOSE k \in found : TRUE
           IN  [code |-> 200,
                scope |-> [org_id |-> k.org_id, store_id |-> k.store_id,
                           camera_id |-> k.camera_id]]

\* the scope check of v1_post_events_bulk: only req.events[0] is compared,
\* and only on org_id and store_id
scope_mismatch(b, a) ==
  b[1].org_id # a.org_id \/ b[1].store_id # a.store_id

\* Event(...): the row built from a wire event whose ts parsed
Event(evt) ==
  [event_id |-> evt.event_id, org_id |-> evt.org_id, store_id |-> evt.store_id,
   camera_id |-> evt.camera_id, type |-> evt.type, ts |-> evt.ts.t,
   payload |-> evt.payload]

\* the index on events.event_id created without unique=True
no_unique_index(k, rows) == FALSE

\* unique index idx_events_event_id: is event_id k taken among rows
unique_violation(k, rows) == \E row \in rows : row.event_id = k

\* one iteration of the for loop, up to the flush: what the try block does
\* given the committed table and the session's own flushed rows
insert_outcome(evt, committed, own) ==
  IF ~evt.ts.valid THEN "Exception"
  ELSE IF unique_violation(evt.event_id, committed \cup own) THEN "IntegrityError"
  ELSE "inserted"

\* a flush waits while another open transaction holds the same event_id
\* uncommitted in the unique index
WaitsFor(r, r2) ==
  /\ r # r2
  /\ pc[r] = "loop"
  /\ pc[r2] \in {"loop", "commit"}
  /\ req[r][idx[r]].ts.valid
  /\ unique_violation(req[r][idx[r]].event_id, db[r2])

Blocked(r) == \E r2 \in Requests : WaitsFor(r, r2)

RECURSIVE WaitClosure(_)
WaitClosure(S) ==
  LET T == S \cup {r2 \in Requests : \E r \in S : WaitsFor(r, r2)}
  IN  IF T = S THEN S ELSE WaitClosure(T)

\* r is in a cycle of waiting transactions
Deadlocked(r) ==
  \E r2 \in Requests : WaitsFor(r, r2) /\ r \in WaitClosure({r2})

NoReport ==
  [fn |-> "none", store_id |-> "none", from_dt |-> 0, to_dt |-> 0,
   metric |-> "none", baseline_days |-> 0, rows |-> <<>>,
   promo_value |-> 0, baseline_value |-> 0, error |-> FALSE,
   event_id |-> <<>>, avg_wait |-> 0, p90_wait |-> 0, total_events |-> 0,
   threshold_z |-> 0, spikes |-> <<>>, promo_daily |-> 0, baseline_daily |-> 0,
   uplift_percent |-> 0, keys |-> {}, peak_hour |-> 0, footfall |-> 0,
   args |-> <<>>, direction |-> ""]

\* the workers of the pipeline: the camera ids of the example configuration
Workers == {"cam-entrance-1", "cam-queue-1"}

\* the track ids the tracker hands out
TrackIds == {1, 2}

NoEvent == [camera_id |-> "none", n |-> 0]

\* a track id that is not a key of self.tracks
NoTrack == [track_id |-> "absent"]

\* no post_with_retry call has been made yet
NoPost == [ok |-> TRUE, attempts |-> 0, answers |-> <<>>, delays |-> <<>>]

\* a rectangle drawn by the operator, as its four vertices
Rect(x1, y1, x2, y2) == <<<<x1, y1>>, <<x2, y1>>, <<x2, y2>>, <<x1, y2>>>>

\* the camera's configuration: polygon maps keep the order of the YAML file
camera_cfg ==
  [camera_id |-> "cam-1",
   capabilities |-> {"entrance", "zones", "shelves", "queue"},
   geometry |->
     [entrance |-> <<<<0, 50>>, <<100, 50>>>>,
      zones |-> <<[id |-> "zone_1", polygon |-> Rect(40, 55, 60, 65)],
                  [id |-> "zone_2", polygon |-> Rect(45, 55, 90, 62)]>>,
      shelves |-> <<[id |-> "shelf_1", polygon |-> Rect(70, 50, 90, 70)]>>,
      queue |-> <<[id |-> "express", polygon |-> Rect(70, 55, 90, 65)],
                  [id |-> "checkout", polygon |-> Rect(30, 55, 90, 65)]>>]]

\* the configurations a worker is started with: the example one, the example
\* one without one of its capabilities, without any, and with an entrance
\* line that is missing or has a single point
Capabilities == {"entrance", "zones", "shelves", "queue"}

Configs ==
  {camera_cfg}
    \cup {[camera_cfg EXCEPT !.capabilities = Capabilities \ {c}] :
            c \in Capabilities}
    \cup {[camera_cfg EXCEPT !.capabilities = {}]}
    \cup {[camera_cfg EXCEPT !.geometry.entrance = line] :
            line \in {<<>>, <<<<0, 50>>>>}}

\* the edge process right after main has started its threads
EdgeInit ==
  /\ out_q = <<>>
  /\ putting = [w \in Workers |-> NoEvent]
  /\ seq = [w \in Workers |-> 0]
  /\ buf = <<>>
  /\ spool = <<>>
  /\ fpc = "get"
  /\ running = [t \in Workers \cup {"flusher"} |-> TRUE]
  /\ main_pc = "sleeping"
  /\ net = "up"
  /\ posted = <<>>
  /\ taken = {}
  /\ at_shutdown = {}
  /\ post_failed = FALSE
  /\ last_post = NoPost
  /\ overdue = FALSE
  /\ now = 0
  /\ frames = 0
  /\ tracks = [t \in TrackIds |-> NoTrack]
  /\ frame_out = <<>>
  /\ entrances = [t \in TrackIds |-> 0]
  /\ crossings = [t \in TrackIds |-> 0]

\* no POST was made, or the answer to one: requests.post returned a response
\* with this status_code, or raised
NoResponse == [made |-> FALSE, raised |-> FALSE, status_code |-> 0]

\* EdgeClient.__init__
ClientInit ==
  /\ offline_queue = <<>>
  /\ client_call = [fn |-> "none", events |-> <<>>, post |-> NoResponse,
                    flush |-> NoResponse]

\* the system at start, the camera worker constructed from configuration c
StartWith(c) ==
  /\ EdgeInit
  /\ ClientInit
  /\ worker_cfg = c
  /\ report = NoReport
  /\ events = {}
  /\ pc = [r \in Requests |-> "idle"]
  /\ auth = [r \in Requests |-> NoAuth]
  /\ req = [r \in Requests |-> <<>>]
  /\ idx = [r \in Requests |-> 1]
  /\ inserted = [r \in Requests |-> 0]
  /\ duplicates = [r \in Requests |-> 0]
  /\ db = [r \in Requests |-> {}]
  /\ status = [r \in Requests |-> 0]
  /\ added = [r \in Requests |-> {}]
  /\ before = [r \in Requests |-> {}]

Init == StartWith(camera_cfg)

\* the worker is started with any of the configurations
InitCaps == \E c \in Configs : StartWith(c)

\* request r arrives: authenticate_edge, the empty-batch return and the
\* scope check (lines 137-147 of v1_post_events_bulk)
Begin(r) ==
  /\ pc[r] = "idle"
  /\ \A r0 \in Requests : r0 < r => pc[r0] # "idle"
  /\ \E token \in Tokens, b \in Batches :
       LET a == authenticate_edge(token)
           st == IF a.code = 401 THEN 401
                 ELSE IF Len(b) = 0 THEN 200
                 ELSE IF scope_mismatch(b, a.scope) THEN 403
                 ELSE 0
       IN  /\ auth' = [auth EXCEPT ![r] = a.scope]
           \* a request that fails authentication never reaches the handler
           /\ req' = [req EXCEPT ![r] = IF st = 401 THEN <<>> ELSE b]
           /\ status' = [status EXCEPT ![r] = st]
           /\ pc' = [pc EXCEPT ![r] = IF st = 0 THEN "loop" ELSE "done"]
  /\ before' = [before EXCEPT ![r] = {r0 \in Requests : pc[r0] = "done"}]
  /\ UNCHANGED <<events, idx, inserted, duplicates, db, added>>
  /\ UNCHANGED outside_ingest

\* one iteration of `for evt in req.events`
InsertStep(r) ==
  /\ pc[r] = "loop"
  /\ ~Blocked(r)
  /\ LET evt == req[r][idx[r]]
         out == insert_outcome(evt, events, db[r])
         last == idx[r] = Len(req[r])
     IN  CASE out = "inserted" ->
                /\ db' = [db EXCEPT ![r] = @ \cup {Event(evt)}]
                /\ inserted' = [inserted EXCEPT ![r] = @ + 1]
                /\ idx' = [idx EXCEPT ![r] = @ + 1]
                /\ pc' = [pc EXCEPT ![r] = IF last THEN "commit" ELSE "loop"]
                /\ UNCHANGED <<duplicates, status>>
           [] out = "IntegrityError" ->
                \* db.rollback() ends the whole transaction of the session
                /\ db' = [db EXCEPT ![r] = {}]
                /\ duplicates' = [duplicates EXCEPT ![r] = @ + 1]
                /\ idx' = [idx EXCEPT ![r] = @ + 1]
                /\ pc' = [pc EXCEPT ![r] = IF last THEN "commit" ELSE "loop"]
                /\ UNCHANGED <<inserted, status>>
           [] out = "Exception" ->
                /\ db' = [db EXCEPT ![r] = {}]
                /\ status' = [status EXCEPT ![r] = 500]
                /\ pc' = [pc EXCEPT ![r] = "done"]
                /\ UNCHANGED <<inserted, duplicates, idx>>
  /\ UNCHANGED <<events, auth, req, added, before>>
  /\ UNCHANGED outside_ingest

\* the database ends a cycle of waiting transactions by failing one flush
\* with an error that is not an IntegrityError
DeadlockAbort(r) ==
  /\ Deadlocked(r)
  /\ db' = [db EXCEPT ![r] = {}]
  /\ status' = [status EXCEPT ![r] = 500]
  /\ pc' = [pc EXCEPT ![r] = "done"]
  /\ UNCHANGED <<events, auth, req, idx, inserted, duplicates, added, before>>
  /\ UNCHANGED outside_ingest

\* db.commit() after the loop, and the 200 response
Commit(r) ==
  /\ pc[r] = "commit"
  /\ events' = events \cup db[r]
  /\ added' = [added EXCEPT ![r] = db[r]]
  /\ db' = [db EXCEPT ![r] = {}]
  /\ status' = [status EXCEPT ![r] = 200]
  /\ pc' = [pc EXCEPT ![r] = "done"]
  /\ UNCHANGED <<auth, req, idx, inserted, duplicates, before>>
  /\ UNCHANGED outside_ingest

\* db.commit() raises: rollback and 500
CommitFail(r) ==
  /\ pc[r] = "commit"
  /\ db' = [db EXCEPT ![r] = {}]
  /\ status' = [status EXCEPT ![r] = 500]
  /\ pc' = [pc EXCEPT ![r] = "done"]
  /\ UNCHANGED <<events, auth, req, idx, inserted, duplicates, added, before>>
  /\ UNCHANGED outside_ingest

v1_post_events_bulk(r) ==
  \/ Begin(r)
  \/ InsertStep(r)
  \/ DeadlockAbort(r)
  \/ Commit(r)
  \/ CommitFail(r)

Next == \E r \in Requests : v1_post_events_bulk(r)

Spec == Init /\ [][Next]_vars


\* ================================================================ analytics
\* most rows the events table holds when the aggregations are queried
MaxRows == 2

\* instants are whole seconds since an epoch that starts a day
TsValues == {0, 3600, 86400}
Stores == {"s1", "s2"}
OrgOf(store) == IF store = "s1" THEN "o1" ELSE "o2"

\* (store_id, camera_id) of a stored row; "c9" has no cameras_extended row
RowPlaces == {<<"s1", "c1">>, <<"s1", "c2">>, <<"s2", "c3">>, <<"s1", "c3">>,
              <<"s1", "c9">>}
\* (type, payload.direction) of a stored row
RowKinds == {<<"entrance", "in">>, <<"entrance", "out">>, <<"zone_dwell", "none">>}

\* rows the ingestion endpoint can have stored; the event_id is the edge's
\* hash of (camera, ts, type, logical key), kept as the tuple itself
StoredRows ==
  { [event_id |-> <<p[2], t, k[1], k[2]>>, org_id |-> OrgOf(p[1]),
     store_id |-> p[1], camera_id |-> p[2], type |-> k[1], ts |-> t,
     payload |-> [direction |-> k[2]]]
    : p \in RowPlaces, k \in RowKinds, t \in TsValues }

\* payload->>'key': NULL when the key is absent
JsonText(payload, key) ==
  IF key \in DOMAIN payload THEN payload[key] ELSE "NULL"

\* date_trunc('hour', ts)
date_trunc_hour(ts) == ts - (ts % 3600)
\* DATE(ts)
DATE(ts) == ts \div 86400

\* ts BETWEEN lo AND hi
BETWEEN(ts, lo, hi) == lo <= ts /\ ts <= hi

RECURSIVE OrderBy(_)
\* ORDER BY 1 over a set of integer bucket keys
OrderBy(S) ==
  IF S = {} THEN <<>>
  ELSE LET m == CHOOSE x \in S : \A y \in S : x <= y
       IN  <<m>> \o OrderBy(S \ {m})

\* events e JOIN cameras_extended c ON e.camera_id = c.camera_id
JoinCameras(rows) ==
  {<<e, c>> \in rows \X cameras : e.camera_id = c.camera_id}

\* footfall_by_hour: the rows of the query, GROUP BY hour bucket
footfall_by_hour(rows, store_id, from_dt, to_dt) ==
  LET sel == {p \in JoinCameras(rows) :
                /\ p[1].store_id = store_id
                /\ p[1].type = "entrance"
                /\ JsonText(p[1].payload, "direction") = "in"
                /\ p[2].is_entrance = TRUE
                /\ BETWEEN(p[1].ts, from_dt, to_dt)}
      keys == OrderBy({date_trunc_hour(p[1].ts) : p \in sel})
  IN  [i \in 1..Len(keys) |->
         [bucket |-> keys[i],
          value |-> Cardinality({p \in sel : date_trunc_hour(p[1].ts) = keys[i]})]]

\* footfall_by_day without the is_entrance condition of the join
footfall_by_day_all_cameras(rows, store_id, from_dt, to_dt) ==
  LET sel == {p \in JoinCameras(rows) :
                /\ p[1].store_id = store_id
                /\ p[1].type = "entrance"
                /\ JsonText(p[1].payload, "direction") = "in"
                /\ BETWEEN(p[1].ts, from_dt, to_dt)}
      keys == OrderBy({DATE(p[1].ts) : p \in sel})
  IN  [i \in 1..Len(keys) |->
         [bucket |-> keys[i],
          value |-> Cardinality({p \in sel : DATE(p[1].ts) = keys[i]})]]

\* footfall_by_day: the rows of the query, GROUP BY day
footfall_by_day(rows, store_id, from_dt, to_dt) ==
  LET sel == {p \in JoinCameras(rows) :
                /\ p[1].store_id = store_id
                /\ p[1].type = "entrance"
                /\ JsonText(p[1].payload, "direction") = "in"
                /\ p[2].is_entrance = TRUE
                /\ BETWEEN(p[1].ts, from_dt, to_dt)}
      keys == OrderBy({DATE(p[1].ts) : p \in sel})
  IN  [i \in 1..Len(keys) |->
         [bucket |-> keys[i],
          value |-> Cardinality({p \in sel : DATE(p[1].ts) = keys[i]})]]

\* the WHERE clause detect_spikes and calculate_uplift use for a metric
\* (no join: the events table alone)
metric_filter(e, metric) ==
  IF metric = "footfall"
  THEN e.type = "entrance" /\ JsonText(e.payload, "direction") = "in"
  ELSE e.type = "shelf" /\ JsonText(e.payload, "state") = "dwell"

Metrics == {"footfall", "interactions", "unknown"}

\* detect_spikes: the per-day series its query returns (rows), before the
\* z-score pass
detect_spikes_rows(rows, store_id, from_dt, to_dt, metric) ==
  IF metric \notin {"footfall", "interactions"} THEN <<>>
  ELSE
  LET sel == {e \in rows :
                /\ e.store_id = store_id
                /\ metric_filter(e, metric)
                /\ BETWEEN(e.ts, from_dt, to_dt)}
      keys == OrderBy({DATE(e.ts) : e \in sel})
  IN  [i \in 1..Len(keys) |->
         [bucket |-> keys[i],
          value |-> Cardinality({e \in sel : DATE(e.ts) = keys[i]})]]

\* calculate_uplift: SELECT COUNT(*) of the metric over a window
uplift_count(rows, store_id, lo, hi, metric) ==
  Cardinality({e \in rows :
                 /\ e.store_id = store_id
                 /\ metric_filter(e, metric)
                 /\ BETWEEN(e.ts, lo, hi)})

\* baseline_start and baseline_end of calculate_uplift
baseline_start(from_dt, baseline_days) == from_dt - baseline_days * 86400
\* a baseline window that runs up to from_dt itself
baseline_end_at_from(from_dt) == from_dt
baseline_end(from_dt) == from_dt - 1

BaselineDays == {1, 14}
Windows == {w \in TsValues \X TsValues : w[1] <= w[2]}

\* n / d rounded to the nearest integer, ties to even (d > 0)
RoundDiv(n, d) ==
  LET q == n \div d
      r == n % d
  IN  IF 2 * r < d THEN q
      ELSE IF 2 * r > d THEN q + 1
      ELSE IF q % 2 = 0 THEN q ELSE q + 1

RECURSIVE SumOver(_, _)
\* the sum of f[x] over the elements x of S
SumOver(S, f) ==
  IF S = {} THEN 0
  ELSE LET x == CHOOSE y \in S : TRUE IN f[x] + SumOver(S \ {x}, f)

RECURSIVE SumSeq(_)
SumSeq(s) == IF s = <<>> THEN 0 ELSE Head(s) + SumSeq(Tail(s))

\* round(100 * sqrt(num / den)): the hundredths nearest to the square root
\* (num >= 0, den > 0)
RoundSqrt(num, den) ==
  CHOOSE r \in 0..400 :
    /\ (2 * r - 1) * (2 * r - 1) * den <= 40000 * num \/ r = 0
    /\ 40000 * num < (2 * r + 1) * (2 * r + 1) * den

\* threshold_z = 2.0 unless the caller passes another, in tenths
default_threshold_z == 20
\* the z-score thresholds passed by callers, in tenths
Thresholds == {5, default_threshold_z}

\* the value column of the series
Values(rows) == [i \in DOMAIN rows |-> rows[i].value]

\* statistics.stdev(values) squared, for two values or more: the variance
\* with n - 1 in the denominator
variance(values) ==
  LET n == Len(values)
      S == SumSeq(values)
      Q == SumSeq([i \in DOMAIN values |-> values[i] * values[i]])
  IN  [num |-> n * Q - S * S, den |-> n * (n - 1)]

\* the series is shorter than the three rows the z-score pass asks for
no_minimum(rows) == FALSE
too_few(rows) == Len(rows) < 3

\* abs((value - mean) / stddev) >= threshold_z, with mean = S / n and
\* stddev * stddev = var.num / var.den, threshold in tenths
z_at_least(value, values, var, threshold_z) ==
  LET n == Len(values)
      d == n * value - SumSeq(values)
  IN  100 * d * d * var.den >= threshold_z * threshold_z * n * n * var.num

\* round(z_score, 2), in hundredths
z_score_round2(value, values, var) ==
  LET n == Len(values)
      d == n * value - SumSeq(values)
      a == RoundSqrt(d * d * var.den, n * n * var.num)
  IN  IF d < 0 THEN 0 - a ELSE a

\* lines 57-80 of detect_spikes: the spikes of the series its query returned
spikes_of(rows, metric, threshold_z) ==
  IF too_few(rows) THEN <<>>
  ELSE
  LET values == Values(rows)
      var == IF Len(values) > 1 THEN variance(values) ELSE [num |-> 0, den |-> 1]
      hit == SelectSeq(rows, LAMBDA row :
                 z_at_least(row.value, values, var, threshold_z))
  IN  IF var.num = 0 THEN <<>>
      ELSE [i \in DOMAIN hit |->
              [date |-> hit[i].bucket, metric |-> metric,
               value |-> hit[i].value,
               z_score |-> z_score_round2(hit[i].value, values, var),
               mean |-> RoundDiv(100 * SumSeq(values), Len(values)),
               stddev |-> RoundSqrt(var.num, var.den)]]

RECURSIVE GCD(_, _)
GCD(a, b) == IF b = 0 THEN a ELSE GCD(b, a % b)

\* promo_duration: (to_dt - from_dt).total_seconds() / 86400 as a fraction
\* of days in lowest terms
promo_duration(from_dt, to_dt) ==
  LET g == GCD(86400, to_dt - from_dt)
  IN  [num |-> (to_dt - from_dt) \div g, den |-> 86400 \div g]

\* the keys of the dict calculate_uplift returns for a known metric
UpliftKeys ==
  {"metric", "promo_period", "baseline_period", "promo_value",
   "baseline_value", "promo_daily", "baseline_daily", "uplift_percent"}

\* lines 87-102 of calculate_uplift: the rates per day and the uplift, each
\* rounded to two decimals and kept in hundredths
uplift(promo_val, baseline_val, duration, baseline_days) ==
  LET has_promo == duration.num > 0
      has_baseline == baseline_days > 0 /\ baseline_val > 0
      \* promo_daily = pn / pd, baseline_daily = baseline_val / baseline_days
      pn == IF has_promo THEN promo_val * duration.den ELSE 0
      pd == IF has_promo THEN duration.num ELSE 1
  IN  [promo_daily |-> RoundDiv(100 * pn, pd),
       baseline_daily |->
         IF baseline_days > 0 THEN RoundDiv(100 * baseline_val, baseline_days)
         ELSE 0,
       uplift_percent |->
         IF has_baseline
         THEN RoundDiv(10000 * (pn * baseline_days - baseline_val * pd),
                       baseline_val * pd)
         ELSE 0]

\* conftest.create_test_event: add and commit one row; on a taken event_id
\* the commit raises IntegrityError to the caller
create_test_event(row) ==
  /\ report = NoReport
  /\ IF unique_violation(row.event_id, events)
     THEN /\ events' = events
          /\ report' = [NoReport EXCEPT !.fn = "create_test_event",
                          !.error = TRUE, !.store_id = row.store_id,
                          !.event_id = row.event_id]
     ELSE /\ Cardinality(events) < MaxRows
          /\ events' = events \cup {row}
          /\ UNCHANGED report
  /\ UNCHANGED outside_events

QueryFootfallByHour(store_id, w) ==
  /\ report = NoReport
  /\ report' = [NoReport EXCEPT !.fn = "footfall_by_hour", !.store_id = store_id,
                  !.from_dt = w[1], !.to_dt = w[2],
                  !.rows = footfall_by_hour(events, store_id, w[1], w[2])]
  /\ UNCHANGED <<events, outside_events>>

QueryFootfallByDay(store_id, w) ==
  /\ report = NoReport
  /\ report' = [NoReport EXCEPT !.fn = "footfall_by_day", !.store_id = store_id,
                  !.from_dt = w[1], !.to_dt = w[2],
                  !.rows = footfall_by_day(events, store_id, w[1], w[2])]
  /\ UNCHANGED <<events, outside_events>>

detect_spikes(store_id, w, metric, threshold_z) ==
  /\ report = NoReport
  /\ LET rows == detect_spikes_rows(events, store_id, w[1], w[2], metric)
     IN  report' = [NoReport EXCEPT !.fn = "detect_spikes",
                      !.store_id = store_id, !.from_dt = w[1], !.to_dt = w[2],
                      !.metric = metric, !.threshold_z = threshold_z,
                      !.rows = rows,
                      !.spikes = spikes_of(rows, metric, threshold_z)]
  /\ UNCHANGED <<events, outside_events>>

calculate_uplift(store_id, w, days, metric) ==
  /\ report = NoReport
  /\ report' =
       IF metric \notin {"footfall", "interactions"}
       THEN [NoReport EXCEPT !.fn = "calculate_uplift", !.store_id = store_id,
               !.from_dt = w[1], !.to_dt = w[2], !.metric = metric,
               !.baseline_days = days, !.error = TRUE, !.keys = {"error"}]
       ELSE
       LET promo_val == uplift_count(events, store_id, w[1], w[2], metric)
           baseline_val ==
             uplift_count(events, store_id, baseline_start(w[1], days),
                          baseline_end(w[1]), metric)
           u == uplift(promo_val, baseline_val, promo_duration(w[1], w[2]), days)
       IN  [NoReport EXCEPT !.fn = "calculate_uplift", !.store_id = store_id,
              !.from_dt = w[1], !.to_dt = w[2], !.metric = metric,
              !.baseline_days = days,
              !.promo_value = promo_val,
              !.baseline_value = baseline_val,
              !.promo_daily = u.promo_daily,
              !.baseline_daily = u.baseline_daily,
              !.uplift_percent = u.uplift_percent,
              !.keys = UpliftKeys]
  /\ UNCHANGED <<events, outside_events>>

\* the answer has been returned to the caller
Answered ==
  /\ report # NoReport
  /\ report' = NoReport
  /\ UNCHANGED <<events, outside_events>>

NextAgg ==
  \/ \E row \in StoredRows : create_test_event(row)
  \/ \E s \in Stores, w \in Windows : QueryFootfallByHour(s, w)
  \/ \E s \in Stores, w \in Windows : QueryFootfallByDay(s, w)
  \/ \E s \in Stores, w \in Windows, m \in Metrics :
       detect_spikes(s, w, m, default_threshold_z)
  \/ \E s \in Stores, w \in Windows, d \in BaselineDays, m \in Metrics :
       calculate_uplift(s, w, d, m)
  \/ Answered

SpecAgg == Init /\ [][NextAgg]_vars

RECURSIVE SumValues(_)
\* total of the value column of a query result
SumValues(rows) ==
  IF rows = <<>> THEN 0 ELSE Head(rows).value + SumValues(Tail(rows))

\* ================================================================= claims
Done200(r) == pc[r] = "done" /\ status[r] = 200
Stored(k) == \E row \in events : row.event_id = k
RowsOf(k) == {row \in events : row.event_id = k}
Positions(r) == 1..Len(req[r])
\* r was authenticated and the handler did not fail on the database
Handled(r) == pc[r] = "done" /\ status[r] \in {200, 403}

\* C1: a batch that was accepted with 200, submitted again after that answer,
\* returns inserted = 0 and inserted + duplicates = batch size, and adds no
\* row to the events table.
C1_ResubmitInsertsNothing ==
  \A r1, r2 \in Requests :
    (Done200(r1) /\ Done200(r2) /\ r1 \in before[r2] /\ req[r1] = req[r2]) =>
      /\ inserted[r2] = 0
      /\ inserted[r2] + duplicates[r2] = Len(req[r2])
      /\ added[r2] = {}

\* the batch of r names every event_id once
DistinctIds(r) ==
  \A i, j \in Positions(r) : req[r][i].event_id = req[r][j].event_id => i = j

\* C2: when a bulk request whose batch mixes new and already stored
\* event_ids (each once, in any order) returns 200, every event of the batch
\* has a row in the events table and the returned `inserted` is the number of
\* rows the request added.
C2_InsertedCountsStoredRows ==
  \A r \in Requests :
    (Done200(r) /\ DistinctIds(r)) =>
      /\ inserted[r] = Cardinality(added[r])
      /\ \A i \in Positions(r) : Stored(req[r][i].event_id)

\* deliveries of event_id k in requests answered 200: <<request, position>>
Deliveries(k) ==
  {d \in Requests \X (1..MaxBatch) :
     Done200(d[1]) /\ d[2] \in Positions(d[1]) /\ req[d[1]][d[2]].event_id = k}
\* d was delivered before e: earlier in the same batch, or in a request
\* answered before the other arrived
DeliveredBefore(d, e) ==
  \/ d[1] = e[1] /\ d[2] < e[2]
  \/ d[1] \in before[e[1]]
FirstDeliveries(k) ==
  {d \in Deliveries(k) : ~\E e \in Deliveries(k) : DeliveredBefore(e, d)}

\* C3: once all deliveries are answered, every event_id delivered in a
\* request answered 200 has exactly one row, and that row has the content of
\* a first delivery of the event_id.
C3_RedeliveryKeepsOneRowPerEvent ==
  (\A r \in Requests : pc[r] = "done") =>
    \A r \in Requests : \A i \in Positions(r) :
      Done200(r) =>
        LET k == req[r][i].event_id
        IN  /\ Cardinality(RowsOf(k)) = 1
            /\ RowsOf(k) \subseteq
                 {Event(req[d[1]][d[2]]) : d \in FirstDeliveries(k)}

\* every row of the table or of an open transaction
AllRows == events \cup UNION {db[r] : r \in Requests}
EventIdUnique == \A x, y \in AllRows : x.event_id = y.event_id => x = y
\* an insert whose event_id is already stored raises IntegrityError and
\* leaves the table as it was
RejectedInsertLeavesTable ==
  \A row \in StoredRows :
    (create_test_event(row) /\ Stored(row.event_id)) =>
      (events' = events /\ report'.error)

\* C4: no two rows share an event_id, whatever their store and org, and an
\* insert with an event_id that is already stored is rejected and leaves the
\* stored row unchanged.
C4_EventIdUniqueAcrossStores ==
  []EventIdUnique /\ [][RejectedInsertLeavesTable]_vars

\* C4 witness: an insert was rejected because its event_id is stored under
\* another store.
C4_Witness ==
  /\ report.fn = "create_test_event" /\ report.error
  /\ \E row \in events :
       row.event_id = report.event_id /\ row.store_id # report.store_id

Overlap(r1, r2) == r1 # r2 /\ r1 \notin before[r2] /\ r2 \notin before[r1]
IdsOf(r) == {req[r][i].event_id : i \in Positions(r)}

\* C5: two requests handled concurrently that share an event_id and are both
\* answered 200 leave exactly one row for every event_id of either batch, and
\* their `inserted` counters add up to the rows they added.
C5_ConcurrentCollisionLosesNothing ==
  \A r1, r2 \in Requests :
    (Overlap(r1, r2) /\ Done200(r1) /\ Done200(r2)
       /\ IdsOf(r1) \cap IdsOf(r2) # {}) =>
      /\ \A k \in IdsOf(r1) \cup IdsOf(r2) : Cardinality(RowsOf(k)) = 1
      /\ inserted[r1] + inserted[r2] = Cardinality(added[r1] \cup added[r2])

OutOfScope(evt, a) == evt.org_id # a.org_id \/ evt.store_id # a.store_id

\* C6: a handled request with an event, at any position, whose (org_id,
\* store_id) differ from the credential's is answered 403 and stores nothing;
\* every row a request stores carries the credential's (org_id, store_id).
C6_ScopeEnforcedOnEveryEvent ==
  \A r \in Requests :
    Handled(r) =>
      /\ (\E i \in Positions(r) : OutOfScope(req[r][i], auth[r])) =>
            (status[r] = 403 /\ added[r] = {})
      /\ \A row \in added[r] : ~OutOfScope(row, auth[r])

\* C7: a handled request of a camera-scoped credential with an event whose
\* camera_id differs from the credential's is answered 403 and stores nothing.
C7_CameraScopeEnforced ==
  \A r \in Requests :
    (Handled(r) /\ auth[r].camera_id # "none"
       /\ \E i \in Positions(r) : req[r][i].camera_id # auth[r].camera_id) =>
      (status[r] = 403 /\ added[r] = {})

\* C8: a request that passed authentication and the scope check and holds an
\* event whose ts does not parse is still answered 200, and its other events
\* are stored.
C8_BadEventDoesNotAbortBatch ==
  \A r \in Requests :
    (pc[r] = "done" /\ status[r] \notin {401, 403}
       /\ \E i \in Positions(r) : ~req[r][i].ts.valid) =>
      /\ status[r] = 200
      /\ \A j \in Positions(r) : req[r][j].ts.valid => Stored(req[r][j].event_id)

\* rows that count as footfall of a store in a window
FootfallEvents(store_id, from_dt, to_dt) ==
  {e \in events :
     /\ e.store_id = store_id
     /\ e.type = "entrance"
     /\ e.payload.direction = "in"
     /\ from_dt <= e.ts /\ e.ts <= to_dt
     /\ \E c \in cameras : c.camera_id = e.camera_id /\ c.is_entrance}

C10_SpikeAndUpliftFootfallAgree ==
  /\ (report.fn = "detect_spikes" /\ report.metric = "footfall") =>
       report.rows =
         footfall_by_day(events, report.store_id, report.from_dt, report.to_dt)
  /\ (report.fn = "calculate_uplift" /\ report.metric = "footfall") =>
       /\ report.promo_value =
            SumValues(footfall_by_day(events, report.store_id, report.from_dt,
                                      report.to_dt))
       /\ report.baseline_value =
            SumValues(footfall_by_day(events, report.store_id,
                        baseline_start(report.from_dt, report.baseline_days),
                        baseline_end(report.from_dt)))

\* ===================================================================
\* The edge runtime's outbound pipeline (edge_runtime_v2.py): camera workers
\* put events on a bounded queue, the EventFlusher thread batches them,
\* posts them and spools them to a JSONL file when the POST fails.
\* ===================================================================

\* the sizes of the source, scaled down
\* events one worker emits
MaxEmit == 2
\* queue.Queue(maxsize=10000)
maxsize == 2
\* MAX_BATCH, 500 by default
MAX_BATCH == 2
\* drain_jsonl(..., max_rows=2000)
max_rows == 2

\* the n-th event worker w emits
PipeEvent(w, n) == [camera_id |-> w, n |-> n]

Min(a, b) == IF a < b THEN a ELSE b

\* Queue.put(item) with block=True: the caller waits while the queue holds
\* maxsize items
never_full(q) == TRUE
not_full(q) == Len(q) < maxsize

put(q, item) == Append(q, item)

\* Queue.get: the oldest item leaves the queue
get_newest(q) == [item |-> q[Len(q)], rest |-> SubSeq(q, 1, Len(q) - 1)]
get(q) == [item |-> Head(q), rest |-> Tail(q)]

\* one line of the JSONL file and its parse
dumps(row) == <<"json", row>>
loads(line) == line[2]

\* enqueue_jsonl: append one line per row
enqueue_jsonl(file, batch) ==
  file \o [i \in 1..Len(batch) |-> dumps(batch[i])]

\* drain_jsonl that leaves an empty file behind
drain_and_truncate(file, n) ==
  [rows |-> [i \in 1..Min(n, Len(file)) |-> loads(file[i])], rest |-> <<>>]
\* drain_jsonl: the first max_rows lines are parsed and returned, the rest
\* is written to the .tmp file that replaces the spool
drain_jsonl(file, n) ==
  LET k == Min(n, Len(file))
  IN  [rows |-> [i \in 1..k |-> loads(file[i])],
       rest |-> SubSeq(file, k + 1, Len(file))]

\* max_retries of the flusher's two post_with_retry calls
flush_retries == 4

\* BACKOFF_BASE = 1.5 as a fraction and BACKOFF_MAX = 60 s; delays are in
\* units of 2^-14 s, in which 60 s is 983040 and the initial backoff of
\* 0.5 s is 8192
BACKOFF_BASE == [num |-> 3, den |-> 2]
BACKOFF_MAX == 983040
initial_backoff == 8192

RECURSIVE backoff(_)
\* the value of `backoff` when time.sleep is called after the attempt
\* number n (from 0) has failed
backoff(n) ==
  IF n = 0 THEN initial_backoff
  ELSE Min((backoff(n - 1) * BACKOFF_BASE.num) \div BACKOFF_BASE.den,
           BACKOFF_MAX)

\* the answers the endpoint gives to max_retries attempts in a row: 2xx to
\* each while it is up; when it is down, failures, after which it may
\* answer again
Responses(endpoint, max_retries) ==
  IF endpoint = "up" THEN {[i \in 1..max_retries |-> "2xx"]}
  ELSE {[i \in 1..max_retries |-> IF i <= k THEN "5xx" ELSE "2xx"] :
          k \in 1..max_retries}

\* post_with_retry: attempts are made until one is answered 2xx or
\* max_retries have failed, sleeping `backoff` after every failed one
post_with_retry(responses, max_retries) ==
  LET won == {i \in 1..max_retries : responses[i] = "2xx"}
      first == IF won = {} THEN max_retries
               ELSE CHOOSE i \in won : \A j \in won : i <= j
      failed == IF won = {} THEN max_retries ELSE first - 1
  IN  [ok |-> won # {},
       attempts |-> first,
       answers |-> SubSeq(responses, 1, first),
       delays |-> [n \in 1..failed |-> backoff(n - 1)]]

\* the endpoint as the last attempt of a call found it
Endpoint(post) == IF post.ok THEN "up" ELSE "down"

Range(f) == {f[i] : i \in DOMAIN f}

\* a camera worker emits its next event: it enters out.put
WorkerEmit(w) ==
  /\ main_pc # "exited"
  /\ running[w]
  /\ putting[w] = NoEvent
  /\ seq[w] < MaxEmit
  /\ seq' = [seq EXCEPT ![w] = @ + 1]
  /\ putting' = [putting EXCEPT ![w] = PipeEvent(w, seq[w] + 1)]
  /\ UNCHANGED <<out_q, buf, spool, fpc, running, main_pc, net, posted, taken,
                 at_shutdown, post_failed, last_post, overdue>>
  /\ UNCHANGED outside_pipe

\* out.put returns: the queue had a free slot
QueuePut(w) ==
  /\ main_pc # "exited"
  /\ putting[w] # NoEvent
  /\ not_full(out_q)
  /\ out_q' = put(out_q, putting[w])
  /\ putting' = [putting EXCEPT ![w] = NoEvent]
  /\ UNCHANGED <<seq, buf, spool, fpc, running, main_pc, net, posted, taken,
                 at_shutdown, post_failed, last_post, overdue>>
  /\ UNCHANGED outside_pipe

\* EventFlusher.run, top of the loop: `while self.running`, then
\* q.get(timeout=0.25), which raises queue.Empty on an empty queue
FlusherGet ==
  /\ main_pc # "exited"
  /\ fpc = "get"
  /\ IF ~running["flusher"]
       THEN /\ fpc' = "stopped"
            /\ UNCHANGED <<out_q, buf, taken>>
       ELSE /\ fpc' = "flush"
            /\ IF out_q # <<>>
                 THEN /\ buf' = Append(buf, get(out_q).item)
                      /\ out_q' = get(out_q).rest
                      /\ taken' = taken \cup {get(out_q).item}
                 ELSE UNCHANGED <<out_q, buf, taken>>
  /\ UNCHANGED <<putting, seq, spool, running, main_pc, net, posted,
                 at_shutdown, post_failed, last_post, overdue>>
  /\ UNCHANGED outside_pipe

\* the clock as the test of line 423 reads it: more than BATCH_SECONDS have
\* gone by since last_flush
ClockTick ==
  /\ main_pc # "exited"
  /\ fpc = "flush"
  /\ ~overdue
  /\ overdue' = TRUE
  /\ UNCHANGED <<out_q, putting, seq, buf, spool, fpc, running, main_pc, net,
                 posted, taken, at_shutdown, post_failed, last_post>>
  /\ UNCHANGED outside_pipe

\* the condition of line 423
size_only(since_last_flush, batch) == Len(batch) >= MAX_BATCH
flush_due(since_last_flush, batch) ==
  since_last_flush \/ Len(batch) >= MAX_BATCH

\* EventFlusher.run, lines 422-432: flush when the batch is due or full; a
\* failed POST goes to the spool, and an I/O error of enqueue_jsonl leaves
\* run() as an uncaught exception, before buf and last_flush are assigned
FlusherFlush ==
  /\ main_pc # "exited"
  /\ fpc = "flush"
  /\ \E io_error \in BOOLEAN :
       IF flush_due(overdue, buf) /\ buf # <<>>
         THEN \E responses \in Responses(net, flush_retries) :
              LET batch == SubSeq(buf, 1, Min(MAX_BATCH, Len(buf)))
                  rest == SubSeq(buf, MAX_BATCH + 1, Len(buf))
                  post == post_with_retry(responses, flush_retries)
              IN  /\ last_post' = post
                  /\ net' = Endpoint(post)
                  /\ IF post.ok
                       THEN /\ ~io_error
                            /\ posted' = posted \o batch
                            /\ buf' = rest
                            /\ overdue' = FALSE
                            /\ fpc' = "drain"
                            /\ UNCHANGED <<spool, post_failed>>
                       ELSE /\ post_failed' = TRUE
                            /\ IF io_error
                                 THEN /\ fpc' = "dead"
                                      /\ UNCHANGED <<spool, buf, overdue>>
                                 ELSE /\ spool' = enqueue_jsonl(spool, batch)
                                      /\ buf' = rest
                                      /\ overdue' = FALSE
                                      /\ fpc' = "drain"
                            /\ UNCHANGED posted
         ELSE /\ ~io_error
              /\ fpc' = "drain"
              /\ UNCHANGED <<buf, spool, posted, post_failed, last_post, net,
                             overdue>>
  /\ UNCHANGED <<out_q, putting, seq, running, main_pc, taken, at_shutdown>>
  /\ UNCHANGED outside_pipe

\* EventFlusher.run, lines 435-443: drain a slice of the spool and post it;
\* an I/O error of drain_jsonl (raised before the .tmp file replaces the
\* spool) or of enqueue_jsonl leaves run() as an uncaught exception
FlusherDrain ==
  /\ main_pc # "exited"
  /\ fpc = "drain"
  /\ \E io_error \in {"none", "drain_jsonl", "enqueue_jsonl"} :
       LET d == drain_jsonl(spool, max_rows)
           pending == d.rows
       IN  IF io_error = "drain_jsonl"
             THEN /\ spool # <<>>
                  /\ fpc' = "dead"
                  /\ UNCHANGED <<spool, posted, post_failed, last_post, net>>
             ELSE IF pending = <<>>
               THEN /\ io_error = "none"
                    /\ spool' = d.rest
                    /\ fpc' = "get"
                    /\ UNCHANGED <<posted, post_failed, last_post, net>>
               ELSE \E responses \in Responses(net, flush_retries) :
                    LET post == post_with_retry(responses, flush_retries)
                    IN  /\ last_post' = post
                        /\ net' = Endpoint(post)
                        /\ IF post.ok
                             THEN /\ io_error = "none"
                                  /\ posted' = posted \o pending
                                  /\ spool' = d.rest
                                  /\ fpc' = "get"
                                  /\ UNCHANGED post_failed
                             ELSE /\ post_failed' = TRUE
                                  /\ IF io_error = "enqueue_jsonl"
                                       THEN /\ spool' = d.rest
                                            /\ fpc' = "dead"
                                       ELSE /\ spool' =
                                                 enqueue_jsonl(d.rest, pending)
                                            /\ fpc' = "get"
                                  /\ UNCHANGED posted
  /\ UNCHANGED <<out_q, putting, seq, buf, running, main_pc, taken,
                 at_shutdown, overdue>>
  /\ UNCHANGED outside_pipe

\* the bulk endpoint stops answering 2xx, or answers 2xx again
NetDown ==
  /\ main_pc # "exited"
  /\ net = "up"
  /\ net' = "down"
  /\ UNCHANGED <<out_q, putting, seq, buf, spool, fpc, running, main_pc,
                 posted, taken, at_shutdown, post_failed, last_post, overdue>>
  /\ UNCHANGED outside_pipe

NetUp ==
  /\ main_pc # "exited"
  /\ net = "down"
  /\ net' = "up"
  /\ UNCHANGED <<out_q, putting, seq, buf, spool, fpc, running, main_pc,
                 posted, taken, at_shutdown, post_failed, last_post, overdue>>
  /\ UNCHANGED outside_pipe

\* main, lines 496-501: KeyboardInterrupt clears the running flags
Shutdown ==
  /\ main_pc = "sleeping"
  /\ main_pc' = "shutdown"
  /\ running' = [t \in DOMAIN running |-> FALSE]
  /\ at_shutdown' = Range(out_q) \cup Range(buf)
  /\ UNCHANGED <<out_q, putting, seq, buf, spool, fpc, net, posted, taken,
                 post_failed, last_post, overdue>>
  /\ UNCHANGED outside_pipe

\* main returns: every thread is a daemon thread, so the interpreter exits
\* without waiting for any of them
Exit ==
  /\ main_pc = "shutdown"
  /\ main_pc' = "exited"
  /\ UNCHANGED <<out_q, putting, seq, buf, spool, fpc, running, net, posted,
                 taken, at_shutdown, post_failed, last_post, overdue>>
  /\ UNCHANGED outside_pipe

NextPipe ==
  \/ \E w \in Workers : WorkerEmit(w)
  \/ \E w \in Workers : QueuePut(w)
  \/ FlusherGet
  \/ FlusherFlush
  \/ FlusherDrain
  \/ ClockTick
  \/ NetDown
  \/ NetUp
  \/ Shutdown
  \/ Exit

SpecPipe == Init /\ [][NextPipe]_vars

\* the threads of a running process are scheduled: a step of the flusher, or
\* a put that has a free slot, is not postponed forever
SpecPipeLive ==
  /\ SpecPipe
  /\ WF_vars(FlusherGet)
  /\ WF_vars(FlusherFlush)
  /\ WF_vars(FlusherDrain)
  /\ \A w \in Workers : WF_vars(QueuePut(w))

\* ------------------------------------------------- claims C11 .. C15
PipeEvents == {PipeEvent(w, n) : w \in Workers, n \in 1..MaxEmit}

InSpool(e) == dumps(e) \in Range(spool)

WasPosted(e) == e \in Range(posted)

\* the endpoint answers 2xx and the process has not been asked to stop
OnlineAndRunning == net = "up" /\ main_pc = "sleeping"

\* C11: if from some point on the bulk endpoint answers 2xx (and the process
\* keeps running), every event held in the spool file is eventually posted
\* and the spool file is eventually empty for good.
C11_SpoolDrainsOnceOnline ==
  <>[]OnlineAndRunning =>
    /\ <>[](spool = <<>>)
    /\ \A e \in PipeEvents : InSpool(e) ~> WasPosted(e)

\* every event worker w has emitted is held by its put call, is in the
\* channel, or has been taken by the dispatcher
NoneDiscarded ==
  \A w \in Workers : \A n \in 1..seq[w] :
    \/ putting[w] = PipeEvent(w, n)
    \/ PipeEvent(w, n) \in Range(out_q)
    \/ PipeEvent(w, n) \in taken

\* a put call returns only by appending its event to a channel that had a
\* free slot, and stays blocked while the channel is full
PutWaitsForSlot ==
  \A w \in Workers :
    /\ (putting[w] # NoEvent /\ putting'[w] = NoEvent)
         => Len(out_q) < maxsize /\ out_q' = Append(out_q, putting[w])
    /\ (putting[w] # NoEvent /\ Len(out_q) = maxsize)
         => putting'[w] = putting[w]

\* C12: the channel never holds more than its capacity; a worker that emits
\* while the channel is full stays in its put call until a slot is free, and
\* no emitted event is dropped on the way into the channel.
C12_BackpressureBlocksProducer ==
  /\ [](Len(out_q) <= maxsize /\ NoneDiscarded)
  /\ [][PutWaitsForSlot]_vars

\* the channel is full, a worker is blocked in put, and the dispatcher has
\* already freed slots before
C12_Witness ==
  /\ Len(out_q) = maxsize
  /\ \E w \in Workers : putting[w] # NoEvent
  /\ taken # {}

\* C13: when the process has exited after a shutdown request, every event
\* that was in the channel or in the dispatcher's batch at the request has
\* been posted or is in the spool file.
C13_ShutdownFlushesPending ==
  main_pc = "exited" => \A e \in at_shutdown : WasPosted(e) \/ InSpool(e)

\* C14: no error raised in the dispatcher loop terminates the EventFlusher.
C14_DispatcherSurvivesErrors == fpc # "dead"

\* the posted events of worker w, in posting order
PostedOf(w) ==
  LET Of(e) == e.camera_id = w IN SelectSeq(posted, Of)

\* C15: while no POST has failed, the events of one camera are posted in
\* emission order: its posted events are its first, second, ... event.
C15_PerCameraOrder ==
  ~post_failed =>
    \A w \in Workers : \A i \in 1..Len(PostedOf(w)) : PostedOf(w)[i].n = i

\* both workers' events were posted, in more than one batch, with no failure
C15_Witness ==
  /\ ~post_failed
  /\ \A w \in Workers : Len(PostedOf(w)) = MaxEmit
  /\ \E i \in 1..(Len(posted) - 1) :
       posted[i].camera_id # posted[i + 1].camera_id

\* ===================================================================
\* One CameraWorker (edge_runtime_v2.py): per frame, the tracker's boxes
\* update the PersonTrack table and the capability state machines put
\* events on self.out.  Times are in milliseconds.
\* ===================================================================

\* frames one run of the worker processes
MaxFrames == 3

\* `dwell_sec >= 4.0`
MinDwell == 4000
\* cleanup_old_tracks(current_time, max_age=10.0)
max_age == 10000
\* point_in_polygon(..., tolerance=5)
tolerance == 5

ORG_ID == "org-1"
STORE_ID == "store-1"

\* the boxes the tracker reports (x1, y1, x2, y2); their centres are
\* (50,40) above the line, (50,60) in zone_1, zone_2 and checkout,
\* (80,60) in zone_2, shelf_1, express and checkout, and (37,60), three
\* pixels left of zone_1
Boxes ==
  {<<40, 20, 60, 60>>, <<40, 40, 60, 80>>, <<70, 40, 90, 80>>,
   <<27, 40, 47, 80>>}

\* seconds between two frames
Steps == {3996, 4000, 10004}

NoDetection == [track_id |-> 0, box |-> <<>>]

\* what model.track returns for a frame: no boxes, or one tracked person
Detections ==
  {NoDetection} \cup {[track_id |-> t, box |-> b] : t \in TrackIds, b \in Boxes}

None == -1

Max(a, b) == IF a > b THEN a ELSE b

\* the smallest and largest coordinate (k = 1 for x, 2 for y) of a polygon
Lo(polygon, k) ==
  CHOOSE v \in {polygon[i][k] : i \in DOMAIN polygon} :
    \A i \in DOMAIN polygon : v <= polygon[i][k]

Hi(polygon, k) ==
  CHOOSE v \in {polygon[i][k] : i \in DOMAIN polygon} :
    \A i \in DOMAIN polygon : v >= polygon[i][k]

\* point_in_polygon: cv2.pointPolygonTest's signed distance (negative
\* outside) is at least -tolerance; for a rectangle the distance outside is
\* the distance to the nearest edge or corner
point_in_polygon(point, polygon, tol) ==
  LET dx == Max(Max(Lo(polygon, 1) - point[1], point[1] - Hi(polygon, 1)), 0)
      dy == Max(Max(Lo(polygon, 2) - point[2], point[2] - Hi(polygon, 2)), 0)
  IN  dx * dx + dy * dy <= tol * tol

ccw(A, B, C) ==
  (C[2] - A[2]) * (B[1] - A[1]) > (B[2] - A[2]) * (C[1] - A[1])

line_crossing(prev, curr, p1, p2) ==
  /\ ccw(prev, p1, p2) # ccw(curr, p1, p2)
  /\ ccw(prev, curr, p1) # ccw(prev, curr, p2)

\* the cross product taken with the movement first
move_cross_line(prev, curr, p1, p2) ==
  LET line_vec == <<p2[1] - p1[1], p2[2] - p1[2]>>
      move_vec == <<curr[1] - prev[1], curr[2] - prev[2]>>
      cross == move_vec[1] * line_vec[2] - move_vec[2] * line_vec[1]
  IN  IF cross > 0 THEN "in" ELSE "out"
crossing_direction(prev, curr, p1, p2) ==
  LET line_vec == <<p2[1] - p1[1], p2[2] - p1[2]>>
      move_vec == <<curr[1] - prev[1], curr[2] - prev[2]>>
      cross == line_vec[1] * move_vec[2] - line_vec[2] * move_vec[1]
  IN  IF cross > 0 THEN "in" ELSE "out"

\* str(i) padded with zeros to `width` digits
Pad(i, width) ==
  IF width = 2 /\ i < 10 THEN "0" \o ToString(i)
  ELSE IF width = 3 /\ i < 10 THEN "00" \o ToString(i)
  ELSE IF width = 3 /\ i < 100 THEN "0" \o ToString(i)
  ELSE ToString(i)

\* datetime.fromtimestamp(current_time, timezone.utc).isoformat(): the
\* fraction is printed (as microseconds) only when it is not zero
isoformat(current_time) ==
  LET sec == current_time \div 1000
      ms == current_time % 1000
  IN  "1970-01-01T00:" \o Pad(sec \div 60, 2) \o ":" \o Pad(sec % 60, 2)
        \o (IF ms = 0 THEN "" ELSE "." \o Pad(ms, 3) \o "000") \o "+00:00"

\* round(x, 2) of a duration: to the nearest 10 ms, ties to even
round2(ms) ==
  LET q == ms \div 10
      r == ms % 10
  IN  IF r < 5 THEN 10 * q
      ELSE IF r > 5 THEN 10 * (q + 1)
      ELSE IF q % 2 = 0 THEN 10 * q ELSE 10 * (q + 1)

\* hashlib.sha256(data).hexdigest(), one digest per byte string
sha256(data) == <<"sha256", data>>

make_event_id(camera_id, track_id, ts_iso, etype, logical_key) ==
  sha256(camera_id \o "|" \o track_id \o "|" \o ts_iso \o "|" \o etype
           \o (IF logical_key # "" THEN "|" \o logical_key ELSE ""))

\* PersonTrack.__init__
PersonTrack(track_id, camera_id, created) ==
  [track_id |-> track_id,
   camera_id |-> camera_id,
   person_id |-> camera_id \o "_t" \o ToString(track_id),
   last_seen |-> created,
   centroid |-> <<0, 0>>,
   prev_centroid |-> <<0, 0>>,
   current_zones |-> {},
   zone_enter_ts |-> [z \in {} |-> 0],
   current_shelves |-> {},
   shelf_enter_ts |-> [z \in {} |-> 0],
   in_queue |-> FALSE,
   queue_id |-> "None",
   queue_enter_ts |-> None,
   entrance_crossed |-> FALSE]

\* the dict put on self.out
OutEvent(event_id, camera_id, etype, ts_iso, payload) ==
  [event_id |-> event_id, org_id |-> ORG_ID, store_id |-> STORE_ID,
   camera_id |-> camera_id, type |-> etype, ts |-> ts_iso,
   payload |-> payload]

\* process_entrance, lines 256-265
entrance_event_id_without_direction(camera_id, track, ts_iso, direction) ==
  OutEvent(make_event_id(camera_id, ToString(track.track_id), ts_iso,
                         "entrance", ""),
           camera_id, "entrance", ts_iso,
           [direction |-> direction, person_id |-> track.person_id])
entrance_event(camera_id, track, ts_iso, direction) ==
  OutEvent(make_event_id(camera_id, ToString(track.track_id), ts_iso,
                         "entrance", direction),
           camera_id, "entrance", ts_iso,
           [direction |-> direction, person_id |-> track.person_id])

\* process_zones, lines 291-304
zone_dwell_event(camera_id, track, ts_iso, zone_id, dwell_sec) ==
  OutEvent(make_event_id(camera_id, ToString(track.track_id), ts_iso,
                         "zone_dwell", zone_id),
           camera_id, "zone_dwell", ts_iso,
           [logical_zone |-> zone_id, dwell_seconds |-> round2(dwell_sec),
            person_id |-> track.person_id])

\* process_shelves, lines 332-346
shelf_interaction_event(camera_id, track, ts_iso, shelf_id, dwell_sec) ==
  OutEvent(make_event_id(camera_id, ToString(track.track_id), ts_iso,
                         "shelf_interaction", shelf_id),
           camera_id, "shelf_interaction", ts_iso,
           [logical_shelf |-> shelf_id, action |-> "touch",
            dwell_seconds |-> round2(dwell_sec),
            person_id |-> track.person_id])

\* process_queue, lines 377-390
queue_presence_event_unrounded(camera_id, track, ts_iso, wait_sec) ==
  OutEvent(make_event_id(camera_id, ToString(track.track_id), ts_iso,
                         "queue_presence", track.queue_id),
           camera_id, "queue_presence", ts_iso,
           [queue |-> track.queue_id, wait_seconds |-> wait_sec,
            person_id |-> track.person_id])
queue_presence_event(camera_id, track, ts_iso, wait_sec) ==
  OutEvent(make_event_id(camera_id, ToString(track.track_id), ts_iso,
                         "queue_presence", track.queue_id),
           camera_id, "queue_presence", ts_iso,
           [queue |-> track.queue_id, wait_seconds |-> round2(wait_sec),
            person_id |-> track.person_id])

\* the result of a process_* method: the track as it leaves it, and the
\* events it put on self.out
Result(track, out) == [track |-> track, out |-> out]

process_entrance_every_crossing(cfg, track, current_time, ts_iso) ==
  LET entrance_line == cfg.geometry.entrance
      p1 == entrance_line[1]
      p2 == entrance_line[2]
  IN  IF Len(entrance_line) < 2 THEN Result(track, <<>>)
      ELSE IF line_crossing(track.prev_centroid, track.centroid, p1, p2)
        THEN Result([track EXCEPT !.entrance_crossed = TRUE],
                    <<entrance_event(cfg.camera_id, track, ts_iso,
                        crossing_direction(track.prev_centroid,
                                           track.centroid, p1, p2))>>)
        ELSE Result(track, <<>>)
process_entrance(cfg, track, current_time, ts_iso) ==
  LET entrance_line == cfg.geometry.entrance
      p1 == entrance_line[1]
      p2 == entrance_line[2]
  IN  IF Len(entrance_line) < 2 THEN Result(track, <<>>)
      ELSE IF ~track.entrance_crossed
              /\ line_crossing(track.prev_centroid, track.centroid, p1, p2)
        THEN Result([track EXCEPT !.entrance_crossed = TRUE],
                    <<entrance_event(cfg.camera_id, track, ts_iso,
                        crossing_direction(track.prev_centroid,
                                           track.centroid, p1, p2))>>)
        ELSE Result(track, <<>>)

\* the ids, in the order of the map, of the polygons that hold the point
Inside(point, polygons) ==
  LET Holds(entry) == point_in_polygon(point, entry.polygon, tolerance)
      hit == SelectSeq(polygons, Holds)
  IN  [i \in DOMAIN hit |-> hit[i].id]

\* `dwell_sec >= 4.0`, the threshold of lines 290 and 331
any_dwell(dwell_sec) == TRUE
long_enough(dwell_sec) == dwell_sec >= MinDwell

\* the intervals that close in this frame, in the order of the map:
\* `for zone_id in left_zones: if zone_id in enter_ts: ... if dwell_sec >= 4.0`
Closed(polygons, left, enter_ts, current_time) ==
  LET Reported(entry) ==
        /\ entry.id \in left
        /\ entry.id \in DOMAIN enter_ts
        /\ long_enough(current_time - enter_ts[entry.id])
      hit == SelectSeq(polygons, Reported)
  IN  [i \in DOMAIN hit |-> hit[i].id]

\* every interval that stays open restarted at current_time
restart_all(enter_ts, new, left, current_time) ==
  [id \in ((DOMAIN enter_ts) \cup new) \ left |-> current_time]
\* the enter_ts dict after `enter_ts[id] = current_time` for the new ids
\* and `del enter_ts[id]` for the ids left
EnterTs(enter_ts, new, left, current_time) ==
  [id \in ((DOMAIN enter_ts) \cup new) \ left |->
     IF id \in new THEN current_time ELSE enter_ts[id]]

process_zones(cfg, track, current_time, ts_iso) ==
  LET zones == cfg.geometry.zones
      current_zones == Range(Inside(track.centroid, zones))
      new_zones == current_zones \ track.current_zones
      left_zones == track.current_zones \ current_zones
      entered == EnterTs(track.zone_enter_ts, new_zones, {}, current_time)
      closed == Closed(zones, left_zones, entered, current_time)
  IN  IF zones = <<>> THEN Result(track, <<>>)
      ELSE Result(
             [track EXCEPT
                !.zone_enter_ts = EnterTs(track.zone_enter_ts, new_zones,
                                          left_zones, current_time),
                !.current_zones = current_zones],
             [i \in DOMAIN closed |->
                zone_dwell_event(cfg.camera_id, track, ts_iso, closed[i],
                                 current_time - entered[closed[i]])])

process_shelves(cfg, track, current_time, ts_iso) ==
  LET shelves == cfg.geometry.shelves
      current_shelves == Range(Inside(track.centroid, shelves))
      new_shelves == current_shelves \ track.current_shelves
      left_shelves == track.current_shelves \ current_shelves
      entered == EnterTs(track.shelf_enter_ts, new_shelves, {}, current_time)
      closed == Closed(shelves, left_shelves, entered, current_time)
  IN  IF shelves = <<>> THEN Result(track, <<>>)
      ELSE Result(
             [track EXCEPT
                !.shelf_enter_ts = EnterTs(track.shelf_enter_ts, new_shelves,
                                           left_shelves, current_time),
                !.current_shelves = current_shelves],
             [i \in DOMAIN closed |->
                shelf_interaction_event(cfg.camera_id, track, ts_iso,
                                        closed[i],
                                        current_time - entered[closed[i]])])

\* Python truth of an Optional[float] and of an Optional[str]
truthy_ts(x) == x # None /\ x # 0
truthy_str(x) == x # "None" /\ x # ""

\* lines 361-365: the first polygon of the map that holds the centroid
last_match(hits) == hits[Len(hits)]
first_match(hits) == hits[1]

\* line 374: `elif not in_any_queue and track.in_queue`
queue_exit(track, in_any_queue) == ~in_any_queue /\ track.in_queue

process_queue(cfg, track, current_time, ts_iso) ==
  LET queue_polygons == cfg.geometry.queue
      hits == Inside(track.centroid, queue_polygons)
      in_any_queue == hits # <<>>
      current_queue_id == IF in_any_queue THEN first_match(hits) ELSE "None"
  IN  IF queue_polygons = <<>> THEN Result(track, <<>>)
      ELSE IF in_any_queue /\ ~track.in_queue
        THEN Result([track EXCEPT !.in_queue = TRUE,
                                  !.queue_id = current_queue_id,
                                  !.queue_enter_ts = current_time],
                    <<>>)
      ELSE IF queue_exit(track, in_any_queue)
        THEN Result([track EXCEPT !.in_queue = FALSE,
                                  !.queue_id = "None",
                                  !.queue_enter_ts = None],
                    IF truthy_ts(track.queue_enter_ts)
                       /\ truthy_str(track.queue_id)
                      THEN <<queue_presence_event(cfg.camera_id, track, ts_iso,
                               current_time - track.queue_enter_ts)>>
                      ELSE <<>>)
      ELSE Result(track, <<>>)

\* process_capabilities: the enabled state machines, one after the other
\* every state machine run, whatever the capabilities
process_all(cfg, track, current_time) ==
  LET ts_iso == isoformat(current_time)
      r1 == process_entrance(cfg, track, current_time, ts_iso)
      r2 == process_zones(cfg, r1.track, current_time, ts_iso)
      r3 == process_shelves(cfg, r2.track, current_time, ts_iso)
      r4 == process_queue(cfg, r3.track, current_time, ts_iso)
  IN  Result(r4.track, r1.out \o r2.out \o r3.out \o r4.out)
process_capabilities(cfg, track, current_time) ==
  LET ts_iso == isoformat(current_time)
      Step(has, r, next) ==
        IF has THEN Result(next.track, r.out \o next.out) ELSE r
      r0 == Result(track, <<>>)
      r1 == Step("entrance" \in cfg.capabilities, r0,
                 process_entrance(cfg, r0.track, current_time, ts_iso))
      r2 == Step("zones" \in cfg.capabilities, r1,
                 process_zones(cfg, r1.track, current_time, ts_iso))
      r3 == Step("shelves" \in cfg.capabilities, r2,
                 process_shelves(cfg, r2.track, current_time, ts_iso))
  IN  Step("queue" \in cfg.capabilities, r3,
           process_queue(cfg, r3.track, current_time, ts_iso))

\* lines 212-213: the centre of the box
centre(box) == <<(box[1] + box[3]) \div 2, (box[2] + box[4]) \div 2>>

\* a cleanup that removes nothing
keep_all_tracks(table, current_time, age) == table
\* cleanup_old_tracks
cleanup_old_tracks(table, current_time, age) ==
  [t \in TrackIds |->
     IF table[t] # NoTrack /\ current_time - table[t].last_seen > age
       THEN NoTrack ELSE table[t]]

\* CameraWorker.run, one pass of the loop with a frame read: the tracker's
\* result updates (or creates) the track, the capabilities run, old tracks
\* are removed
FrameWithin(limit) ==
  /\ frames < limit
  /\ \E dt \in Steps, det \in Detections :
       LET current_time == now + dt
           tid == det.track_id
           known == IF tracks[tid] = NoTrack
                      THEN PersonTrack(tid, worker_cfg.camera_id, current_time)
                      ELSE tracks[tid]
           track == [known EXCEPT !.prev_centroid = known.centroid,
                                  !.centroid = centre(det.box),
                                  !.last_seen = current_time]
           r == process_capabilities(worker_cfg, track, current_time)
           line == worker_cfg.geometry.entrance
           crossed == /\ Len(line) >= 2
                      /\ line_crossing(track.prev_centroid, track.centroid,
                                       line[1], line[2])
           entered == \E i \in DOMAIN r.out : r.out[i].type = "entrance"
       IN  /\ now' = current_time
           /\ frames' = frames + 1
           /\ IF det = NoDetection
                THEN /\ tracks' = cleanup_old_tracks(tracks, current_time, max_age)
                     /\ frame_out' = <<>>
                     /\ UNCHANGED <<entrances, crossings>>
                ELSE /\ tracks' = cleanup_old_tracks(
                                    [tracks EXCEPT ![tid] = r.track],
                                    current_time, max_age)
                     /\ frame_out' = r.out
                     /\ entrances' =
                          [entrances EXCEPT ![tid] =
                             (IF tracks[tid] = NoTrack THEN 0 ELSE @)
                               + (IF entered THEN 1 ELSE 0)]
                     /\ crossings' =
                          [crossings EXCEPT ![tid] =
                             (IF tracks[tid] = NoTrack THEN 0 ELSE @)
                               + (IF crossed THEN 1 ELSE 0)]
  /\ UNCHANGED worker_cfg
  /\ UNCHANGED outside_tracks

Frame == FrameWithin(MaxFrames)

NextTracks == Frame

SpecTracks == Init /\ [][NextTracks]_vars

\* ------------------------------------------------- claims C16 .. C20
\* the logical key an event carries in its payload
LogicalKey(e) ==
  CASE e.type = "entrance" -> e.payload.direction
    [] e.type = "zone_dwell" -> e.payload.logical_zone
    [] e.type = "shelf_interaction" -> e.payload.logical_shelf
    [] e.type = "queue_presence" -> e.payload.queue

EventsOut == Range(frame_out)

\* C16: the event_id of every emitted event is the digest of the camera_id,
\* type and ts sent in the event's own fields, of the track id of its
\* person_id and of the logical key of its payload; ts is the ISO string of
\* the frame's time.
C16_EventIdFromOwnFields ==
  \A e \in EventsOut :
    /\ e.ts = isoformat(now)
    /\ \E t \in TrackIds :
         /\ e.payload.person_id = e.camera_id \o "_t" \o ToString(t)
         /\ e.event_id = make_event_id(e.camera_id, ToString(t), e.ts, e.type,
                                       LogicalKey(e))

\* one frame emitted a zone_dwell and a queue_presence event, at a time with
\* a fraction of a second
C16_Witness ==
  \E e1, e2 \in EventsOut :
    /\ e1.type = "zone_dwell" /\ e2.type = "queue_presence"
    /\ now % 1000 # 0

\* the tracks the step's frame has seen
Seen == {t \in TrackIds : tracks'[t] # NoTrack /\ tracks'[t].last_seen = now'}

\* the events of the step's frame, of a given type, about track t
EventsAbout(t, etype) ==
  {i \in DOMAIN frame_out' :
     /\ frame_out'[i].type = etype
     /\ frame_out'[i].payload.person_id = tracks'[t].person_id}

CrossedBefore(t) == tracks[t] # NoTrack /\ tracks[t].entrance_crossed

SegmentCrosses(track) ==
  line_crossing(track.prev_centroid, track.centroid,
                camera_cfg.geometry.entrance[1],
                camera_cfg.geometry.entrance[2])

\* an entrance event is emitted exactly on the frame where the track has
\* not crossed before and its segment crosses the line
EntranceOnFirstCrossing ==
  /\ \A t \in Seen :
       Cardinality(EventsAbout(t, "entrance")) =
         IF ~CrossedBefore(t) /\ SegmentCrosses(tracks'[t]) THEN 1 ELSE 0
  /\ \A i \in DOMAIN frame_out' :
       \E t \in Seen : frame_out'[i].payload.person_id = tracks'[t].person_id

\* C17: between its creation and its garbage collection a track emits at
\* most one entrance event, however often it crosses the line, and it emits
\* it on the first frame where it has not crossed and its segment crosses.
C17_EntranceOneShot ==
  /\ [](\A t \in TrackIds :
          tracks[t] # NoTrack =>
            /\ entrances[t] <= 1
            /\ tracks[t].entrance_crossed <=> entrances[t] = 1)
  /\ [][EntranceOnFirstCrossing]_vars

\* a track has crossed the line twice and emitted one entrance event
C17_Witness ==
  \E t \in TrackIds :
    tracks[t] # NoTrack /\ crossings[t] >= 2 /\ entrances[t] = 1

\* the polygons a track was in before the step
WasIn(t, field) == IF tracks[t] = NoTrack THEN {} ELSE tracks[t][field]

\* the events of the step's frame about track t and polygon id
IntervalEvents(t, etype, key, id) ==
  {i \in EventsAbout(t, etype) : frame_out'[i].payload[key] = id}

\* entering a polygon emits nothing; leaving it emits one event exactly when
\* the time since the recorded enter time is at least 4.0 s
IntervalsClose(ids, etype, key, current, enter_ts) ==
  \A t \in Seen : \A id \in ids :
    Cardinality(IntervalEvents(t, etype, key, id)) =
      IF /\ id \in WasIn(t, current)
         /\ id \notin tracks'[t][current]
         /\ now' - tracks[t][enter_ts][id] >= MinDwell
        THEN 1 ELSE 0

PolygonIds(polygons) == {polygons[i].id : i \in DOMAIN polygons}

\* C18: nothing is emitted when a track enters a zone or shelf polygon; when
\* it leaves, exactly one zone_dwell (shelf_interaction with action touch)
\* event is emitted if now minus the enter time is at least 4.0 s, none
\* otherwise; every such event has dwell_seconds >= 4.0.
C18_ZoneShelfIntervals ==
  /\ [](\A e \in EventsOut :
          /\ e.type \in {"zone_dwell", "shelf_interaction"}
               => e.payload.dwell_seconds >= MinDwell
          /\ e.type = "shelf_interaction" => e.payload.action = "touch")
  /\ [][/\ IntervalsClose(PolygonIds(camera_cfg.geometry.zones), "zone_dwell",
                          "logical_zone", "current_zones", "zone_enter_ts")
        /\ IntervalsClose(PolygonIds(camera_cfg.geometry.shelves),
                          "shelf_interaction", "logical_shelf",
                          "current_shelves", "shelf_enter_ts")]_vars

\* a track left a zone and a shelf in one frame and both were reported, the
\* dwell being rounded
C18_Witness ==
  \E e1, e2 \in EventsOut :
    /\ e1.type = "zone_dwell" /\ e2.type = "shelf_interaction"
    /\ e1.payload.dwell_seconds % 4 # 0

WasInQueue(t) == tracks[t] # NoTrack /\ tracks[t].in_queue

\* the queue state machine of one step; Wait gives the wait_seconds an exit
\* must report for the elapsed time
QueueMachine(Wait(_)) ==
  \A t \in Seen :
    /\ (~WasInQueue(t) /\ tracks'[t].in_queue) =>
         /\ tracks'[t].queue_enter_ts = now'
         /\ tracks'[t].queue_id \in PolygonIds(camera_cfg.geometry.queue)
         /\ EventsAbout(t, "queue_presence") = {}
    /\ (WasInQueue(t) /\ ~tracks'[t].in_queue) =>
         /\ Cardinality(EventsAbout(t, "queue_presence")) = 1
         /\ \A i \in EventsAbout(t, "queue_presence") :
              frame_out'[i].payload.wait_seconds =
                Wait(now' - tracks[t].queue_enter_ts)
    /\ (WasInQueue(t) <=> tracks'[t].in_queue) =>
         EventsAbout(t, "queue_presence") = {}

Exact(elapsed) == elapsed

\* C19: entering a queue records queue_enter_ts and queue_id and emits
\* nothing; every exit emits exactly one queue_presence event whose
\* wait_seconds equals now minus queue_enter_ts; no queue_presence event is
\* emitted at any other time.
C19_QueueMachineExactWait == [][QueueMachine(Exact)]_vars

\* C19, amended: the same, with wait_seconds equal to now minus
\* queue_enter_ts rounded to two decimals.
C19_QueueMachineRoundedWait == [][QueueMachine(round2)]_vars

\* a queue_presence event whose wait_seconds is a rounded value
C19_Witness ==
  \E e \in EventsOut :
    e.type = "queue_presence" /\ e.payload.wait_seconds % 4 # 0

\* the first polygon, in the order of the map, that holds the point
FirstQueueAt(point) ==
  LET q == camera_cfg.geometry.queue
      Holds(i) == point_in_polygon(point, q[i].polygon, tolerance)
  IN  IF \E i \in DOMAIN q : Holds(i)
        THEN q[CHOOSE i \in DOMAIN q :
                 Holds(i) /\ \A j \in 1..(i - 1) : ~Holds(j)].id
        ELSE "None"

\* the queue recorded at entry is the first match, it is kept while the
\* track stays in a queue, and it is the queue the exit reports
QueueIdKept ==
  \A t \in Seen :
    /\ (~WasInQueue(t) /\ tracks'[t].in_queue) =>
         tracks'[t].queue_id = FirstQueueAt(tracks'[t].centroid)
    /\ (WasInQueue(t) /\ tracks'[t].in_queue) =>
         /\ tracks'[t].queue_id = tracks[t].queue_id
         /\ tracks'[t].queue_enter_ts = tracks[t].queue_enter_ts
    /\ \A i \in EventsAbout(t, "queue_presence") :
         frame_out'[i].payload.queue = tracks[t].queue_id

\* C20: a track is attributed to at most one queue; in_queue is true exactly
\* when queue_id and queue_enter_ts are set; the queue a queue_presence
\* event reports is the one recorded at entry, the first matching polygon.
C20_SingleQueueMembership ==
  /\ [](\A t \in TrackIds :
          tracks[t] # NoTrack =>
            /\ tracks[t].in_queue <=> tracks[t].queue_id # "None"
            /\ tracks[t].in_queue <=> tracks[t].queue_enter_ts # None
            /\ tracks[t].queue_id
                 \in PolygonIds(camera_cfg.geometry.queue) \cup {"None"})
  /\ [][QueueIdKept]_vars

\* a track that entered checkout stands where express matches first, and
\* is still attributed to checkout
C20_Witness ==
  \E t \in TrackIds :
    /\ tracks[t] # NoTrack
    /\ tracks[t].in_queue
    /\ tracks[t].queue_id = "checkout"
    /\ FirstQueueAt(tracks[t].centroid) = "express"

\* ========================================================== zone analytics
\* zone_dwell rows of store s1: the payload the edge sends, dwell_seconds in
\* hundredths of a second
ZoneIds == {"z1", "z2"}
PersonIds == {"p1", "p2"}
ZoneCameras == {"c1", "c2"}
ZoneTs == {0, 30, 3600}
DwellValues == {399, 400}

ZoneRows ==
  { [event_id |-> <<c, t, "zone_dwell", z, p, d>>, org_id |-> OrgOf("s1"),
     store_id |-> "s1", camera_id |-> c, type |-> "zone_dwell", ts |-> t,
     payload |-> [logical_zone |-> z, dwell_seconds |-> d, person_id |-> p]]
    : c \in ZoneCameras, t \in ZoneTs, z \in ZoneIds, p \in PersonIds,
      d \in DwellValues }

\* a || b: NULL when either side is NULL
Concat(a, b) == IF a = "NULL" \/ b = "NULL" THEN "NULL" ELSE a \o b

\* date_trunc('minute', ts)::text
date_trunc_minute_text(ts) == ToString(ts - (ts % 60))

\* the dedup key of unique_visitors counted once per (camera, person) pair
visitor_key_per_camera(e) ==
  Concat(Concat(e.camera_id, "_"), JsonText(e.payload, "person_id"))
\* the expression under COUNT(DISTINCT ...) of zones_metrics
visitor_key(e) ==
  Concat(Concat(Concat(Concat(e.camera_id, "_"),
                       JsonText(e.payload, "person_id")), "_"),
         date_trunc_minute_text(e.ts))

\* the WHERE clause of zones_metrics
zone_filter(e, store_id, from_dt, to_dt) ==
  /\ e.store_id = store_id
  /\ e.type = "zone_dwell"
  /\ "dwell_seconds" \in DOMAIN e.payload
  /\ e.payload.dwell_seconds >= 400
  /\ BETWEEN(e.ts, from_dt, to_dt)

\* zones_metrics: the dict it returns, one entry per logical zone (GROUP BY),
\* rows with a NULL or empty zone id skipped
zones_metrics(rows, store_id, from_dt, to_dt) ==
  LET sel == {e \in rows : zone_filter(e, store_id, from_dt, to_dt)}
      grp(z) == {e \in sel : JsonText(e.payload, "logical_zone") = z}
      avg(z) ==
        RoundDiv(SumOver(grp(z), [e \in grp(z) |-> e.payload.dwell_seconds]),
                 Cardinality(grp(z)))
  IN  [z \in {JsonText(e.payload, "logical_zone") : e \in sel} \ {"NULL", ""} |->
         [unique_visitors |->
            Cardinality({visitor_key(e) : e \in grp(z)} \ {"NULL"}),
          avg_dwell |-> avg(z)]]

QueryZonesMetrics(store_id, w) ==
  /\ report = NoReport
  /\ report' = [NoReport EXCEPT !.fn = "zones_metrics", !.store_id = store_id,
                  !.from_dt = w[1], !.to_dt = w[2],
                  !.rows = zones_metrics(events, store_id, w[1], w[2])]
  /\ UNCHANGED <<events, outside_events>>

NextZones ==
  \/ \E row \in ZoneRows : create_test_event(row)
  \/ \E s \in Stores, w \in Windows : QueryZonesMetrics(s, w)
  \/ Answered

SpecZones == Init /\ [][NextZones]_vars

\* the zone_dwell events of zone z the answered query selects
ZoneEvents(z) ==
  {e \in events : /\ e.store_id = report.store_id
                  /\ e.type = "zone_dwell"
                  /\ e.payload.logical_zone = z
                  /\ e.payload.dwell_seconds >= 400
                  /\ report.from_dt <= e.ts /\ e.ts <= report.to_dt}

Minute(ts) == ts \div 60

ZonesAnswered == report.fn = "zones_metrics"

C22_EachPersonOnce ==
  ZonesAnswered =>
    \A z \in DOMAIN report.rows :
      report.rows[z].unique_visitors =
        Cardinality({e.payload.person_id : e \in ZoneEvents(z)})

\* ========================================================= queue analytics
\* the wait times (seconds) test_queue_p90_calculation stores, in its order
wait_times ==
  <<5, 8, 10, 12, 15, 18, 20, 22, 25, 28, 30, 35, 40, 45, 50, 55, 60, 70, 80, 90>>

\* the i-th (from 0) queue_presence row of the test: one minute apart,
\* wait_seconds in hundredths of a second
QueueRow(i) ==
  [event_id |-> <<"queue-p90", i>>, org_id |-> OrgOf("s1"), store_id |-> "s1",
   camera_id |-> "c1", type |-> "queue_presence", ts |-> 60 * i,
   payload |-> [queue_id |-> "checkout-main",
                wait_seconds |-> 100 * wait_times[i + 1]]]

\* the loop of the test: the next row is added and committed
insert_wait_time ==
  /\ report = NoReport
  /\ Cardinality(events) < Len(wait_times)
  /\ events' = events \cup {QueueRow(Cardinality(events))}
  /\ UNCHANGED <<report, outside_events>>

RECURSIVE SortedWaits(_)
\* SELECT wait_seconds ... ORDER BY wait_seconds over a set of rows
SortedWaits(S) ==
  IF S = {} THEN <<>>
  ELSE LET m == CHOOSE x \in S :
                  \A y \in S : x.payload.wait_seconds <= y.payload.wait_seconds
       IN  <<m.payload.wait_seconds>> \o SortedWaits(S \ {m})

\* np.mean of a non-empty list, rounded to 2 decimals (values in hundredths)
mean_round2(a) == RoundDiv(SumSeq(a), Len(a))

\* the value at the nearest rank ceil(0.9 n) of the ordered list
percentile_nearest_rank(a) == a[(9 * Len(a) + 9) \div 10]
\* np.percentile(a, 90) of a non-empty ordered list, rounded to 2 decimals:
\* linear interpolation at the position 0.9 * (n - 1) counted from 0
percentile_90_round2(a) ==
  LET pos10 == 9 * (Len(a) - 1)
      lo == pos10 \div 10 + 1
      f == pos10 % 10
  IN  IF f = 0 THEN a[lo]
      ELSE RoundDiv(10 * a[lo] + f * (a[lo + 1] - a[lo]), 10)

\* queue_metrics: avg_wait, p90_wait (hundredths of a second), total_events
queue_metrics(rows, store_id, from_dt, to_dt) ==
  LET sel == {e \in rows :
                /\ e.store_id = store_id
                /\ e.type = "queue_presence"
                /\ "wait_seconds" \in DOMAIN e.payload
                /\ BETWEEN(e.ts, from_dt, to_dt)}
      wait_list == SortedWaits(sel)
  IN  IF wait_list = <<>>
      THEN [avg_wait |-> 0, p90_wait |-> 0, total_events |-> 0]
      ELSE [avg_wait |-> mean_round2(wait_list),
            p90_wait |-> percentile_90_round2(wait_list),
            total_events |-> Len(wait_list)]

QueueWindows ==
  {<<60 * a, 60 * b>> : a \in 0..(Len(wait_times) - 1),
                        b \in 0..(Len(wait_times) - 1)}

QueryQueueMetrics(store_id, w) ==
  /\ report = NoReport
  /\ LET m == queue_metrics(events, store_id, w[1], w[2])
     IN  report' = [NoReport EXCEPT !.fn = "queue_metrics",
                      !.store_id = store_id, !.from_dt = w[1], !.to_dt = w[2],
                      !.avg_wait = m.avg_wait, !.p90_wait = m.p90_wait,
                      !.total_events = m.total_events]
  /\ UNCHANGED <<events, outside_events>>

NextQueue ==
  \/ insert_wait_time
  \/ \E s \in Stores, w \in QueueWindows : QueryQueueMetrics(s, w)
  \/ Answered

SpecQueue == Init /\ [][NextQueue]_vars

\* the wait_seconds (hundredths) of the store's queue_presence events in the
\* window of the answered query, by event
QueueEvents ==
  {e \in events : /\ e.store_id = report.store_id
                  /\ e.type = "queue_presence"
                  /\ report.from_dt <= e.ts /\ e.ts <= report.to_dt}

WaitOf(e) == e.payload.wait_seconds
\* the number of selected events that waited at most (less than) v
AtMost(v) == Cardinality({e \in QueueEvents : WaitOf(e) <= v})
Below(v) == Cardinality({e \in QueueEvents : WaitOf(e) < v})

\* v is the k-th smallest (k from 1) of the selected waits
IsOrderStat(v, k) ==
  /\ \E e \in QueueEvents : WaitOf(e) = v
  /\ Below(v) < k /\ k <= AtMost(v)

\* twice the distance of 100 * x from the exact quotient n / d is at most 1
\* hundredth: x is n / d rounded to two decimals
IsRounded(x, n, d) ==
  /\ 2 * (x * d - n) <= d
  /\ 2 * (n - x * d) <= d

\* the arithmetic mean of the selected waits, rounded to two decimals
IsMean(x) ==
  IsRounded(x, SumOver(QueueEvents, [e \in QueueEvents |-> WaitOf(e)]),
            Cardinality(QueueEvents))

\* the 90th percentile by linear interpolation between the order statistics
\* around the position 0.9 (n - 1), rounded to two decimals
IsP90Linear(x) ==
  LET n == Cardinality(QueueEvents)
      lo == (9 * (n - 1)) \div 10 + 1
      f == (9 * (n - 1)) % 10
  IN  \E u, v \in {WaitOf(e) : e \in QueueEvents} :
        /\ IsOrderStat(u, lo)
        /\ IF f = 0 THEN v = u ELSE IsOrderStat(v, lo + 1)
        /\ IsRounded(x, 10 * u + f * (v - u), 10)

\* the 90th percentile by nearest rank
IsP90NearestRank(x) == IsOrderStat(x, (9 * Cardinality(QueueEvents) + 9) \div 10)

QueueAnswered == report.fn = "queue_metrics"

\* the answered query covers the twenty rows of the test
AllTwenty == QueueAnswered /\ Cardinality(QueueEvents) = Len(wait_times)

\* |x - target| <= rel * target, all in hundredths, rel in hundredths too
Approx(x, target, rel) ==
  /\ 100 * (x - target) <= rel * target
  /\ 100 * (target - x) <= rel * target

QueueGeneral ==
  (QueueAnswered /\ QueueEvents # {}) =>
    /\ report.total_events = Cardinality(QueueEvents)
    /\ IsMean(report.avg_wait)
    /\ IsP90Linear(report.p90_wait) \/ IsP90NearestRank(report.p90_wait)

MaxDays == 6
MaxPerDay == 2

\* the k-th (from 0) entrance stored at a slot (a day or an hour), as the
\* ingestion endpoint stores it
SlotEntranceRow(slot, k) ==
  [event_id |-> <<"c1", slot + k, "entrance", "in">>,
   org_id |-> OrgOf("s1"), store_id |-> "s1", camera_id |-> "c1",
   type |-> "entrance", ts |-> slot + k,
   payload |-> [direction |-> "in"]]

\* one more entrance of the day is ingested
insert_entrance(day) ==
  /\ report = NoReport
  /\ LET k == Cardinality({e \in events : DATE(e.ts) = day})
     IN  /\ k < MaxPerDay
         /\ events' = events \cup {SlotEntranceRow(86400 * day, k)}
  /\ UNCHANGED <<report, outside_events>>

\* windows from the first day to the end of a later one
SpikeWindows == {<<0, 86400 * b + 86399>> : b \in 0..(MaxDays - 1)}

NextSpikes ==
  \/ \E day \in 0..(MaxDays - 1) : insert_entrance(day)
  \/ \E w \in SpikeWindows, z \in Thresholds :
       detect_spikes("s1", w, "footfall", z)
  \/ Answered

SpecSpikes == Init /\ [][NextSpikes]_vars

SpikesAnswered == report.fn = "detect_spikes" /\ report.metric = "footfall"

\* the days of the window with footfall, and the footfall of a day
DayEvents(day) ==
  {e \in events : /\ e.store_id = report.store_id
                  /\ e.type = "entrance" /\ e.payload.direction = "in"
                  /\ report.from_dt <= e.ts /\ e.ts <= report.to_dt
                  /\ e.ts \div 86400 = day}
Buckets == {day \in 0..(MaxDays - 1) : DayEvents(day) # {}}
BucketValue(day) == Cardinality(DayEvents(day))

SpikeDates == {report.spikes[i].date : i \in DOMAIN report.spikes}

\* C24: detect_spikes returns no spikes whenever the bucketed series has
\* fewer than 3 buckets or all bucket values are equal, for every threshold.
C24_NoSpikesOnShortOrFlatSeries ==
  (/\ SpikesAnswered
   /\ \/ Cardinality(Buckets) < 3
      \/ \A a, b \in Buckets : BucketValue(a) = BucketValue(b))
  => report.spikes = <<>>

\* a flat series of three days or more, asked with the lowest threshold
C24_Witness ==
  /\ SpikesAnswered
  /\ Cardinality(Buckets) >= 3
  /\ \A a, b \in Buckets : BucketValue(a) = BucketValue(b)
  /\ report.threshold_z = 5
  /\ report.spikes = <<>>

\* a series of two unequal days, asked with the lowest threshold
C24_WitnessShort ==
  /\ SpikesAnswered
  /\ Cardinality(Buckets) = 2
  /\ \E a, b \in Buckets : BucketValue(a) # BucketValue(b)
  /\ report.threshold_z = 5
  /\ report.spikes = <<>>

\* n, the sum and the sum of squares of the bucket values
BucketN == Cardinality(Buckets)
BucketSum == SumOver(Buckets, [d \in Buckets |-> BucketValue(d)])
BucketSquares == SumOver(Buckets, [d \in Buckets |-> BucketValue(d) * BucketValue(d)])

\* |x - mean| / sigma >= threshold for the population sigma:
\* (n x - S)^2 >= t^2 (n Q - S^2)
PopulationSpike(day) ==
  LET d == BucketN * BucketValue(day) - BucketSum
  IN  100 * d * d >=
        report.threshold_z * report.threshold_z
          * (BucketN * BucketSquares - BucketSum * BucketSum)

\* C25: detect_spikes flags exactly the buckets whose |x - mean| / sigma is
\* at least the threshold, mean and sigma being the population mean and the
\* population standard deviation of all bucket values of the window.
C25_FlagsByPopulationZScore ==
  (/\ SpikesAnswered
   /\ BucketN >= 3
   /\ BucketN * BucketSquares # BucketSum * BucketSum)
  => SpikeDates = {day \in Buckets : PopulationSpike(day)}

\* ============================================================ promo uplift
\* the promo window starts two weeks after the epoch
promo_from == 14 * 86400

\* the instants events are stored at: the first and the last day of the
\* two weeks before the promo, its first instant and its second day
EntranceSlots == {0, 13 * 86400, promo_from, promo_from + 86400}
ShelfSlots == {13 * 86400, promo_from}

\* the k-th (from 0) shelf_interaction of a slot, as the endpoint stores it
ShelfRow(slot, k) ==
  [event_id |-> <<"c1", slot + k, "shelf_interaction", "shelf_1">>,
   org_id |-> OrgOf("s1"), store_id |-> "s1", camera_id |-> "c1",
   type |-> "shelf_interaction", ts |-> slot + k,
   payload |-> [logical_shelf |-> "shelf_1", action |-> "touch",
                dwell_seconds |-> 400, person_id |-> "p1"]]

InSlot(type, slot) ==
  {e \in events : e.type = type /\ slot <= e.ts /\ e.ts < slot + 3600}

\* one more event of the type is ingested at the slot
insert_event(type, slot) ==
  /\ report = NoReport
  /\ LET k == Cardinality(InSlot(type, slot))
     IN  /\ k < MaxPerDay
         /\ events' = events \cup
              {IF type = "entrance" THEN SlotEntranceRow(slot, k)
               ELSE ShelfRow(slot, k)}
  /\ UNCHANGED <<report, outside_events>>

\* promo windows of 0, 1/2, 1 and 3 days
PromoWindows ==
  {<<promo_from, promo_from + d>> : d \in {0, 43200, 86400, 3 * 86400}}
PromoBaselineDays == {0, 1, 14}

NextPromo ==
  \/ \E slot \in EntranceSlots : insert_event("entrance", slot)
  \/ \E slot \in ShelfSlots : insert_event("shelf_interaction", slot)
  \/ \E w \in PromoWindows, d \in PromoBaselineDays, m \in Metrics :
       calculate_uplift("s1", w, d, m)
  \/ detect_spikes("s1", <<0, promo_from + 3 * 86400>>, "interactions",
                   default_threshold_z)
  \/ Answered

SpecPromo == Init /\ [][NextPromo]_vars

UpliftAnswered == report.fn = "calculate_uplift" /\ ~report.error

\* the stored events of a type in [lo, hi]
CountOf(type, lo, hi) ==
  Cardinality({e \in events : /\ e.store_id = report.store_id
                              /\ e.type = type
                              /\ lo <= e.ts /\ e.ts <= hi})

\* the events the metric of the answered query is about
MetricType ==
  IF report.metric = "footfall" THEN "entrance" ELSE "shelf_interaction"

\* the promo length in seconds, the metric over the promo window and over
\* the baseline_days before from_dt
PromoSeconds == report.to_dt - report.from_dt
PromoCount == CountOf("entrance", report.from_dt, report.to_dt)
BaselineCount ==
  CountOf("entrance", report.from_dt - 86400 * report.baseline_days,
          report.from_dt - 1)

\* promo_rate - baseline_rate and baseline_rate, both times
\* PromoSeconds * baseline_days (positive), rates per day
RateDifference ==
  PromoCount * 86400 * report.baseline_days - BaselineCount * PromoSeconds
BaselineRate == BaselineCount * PromoSeconds

FootfallUplift ==
  /\ UpliftAnswered /\ report.metric = "footfall"
  /\ PromoSeconds > 0 /\ report.baseline_days > 0 /\ BaselineCount > 0

C26_WitnessNegative ==
  /\ FootfallUplift
  /\ RateDifference < 0
  /\ report.uplift_percent < 0

SpikesInteractions ==
  report.fn = "detect_spikes" /\ report.metric = "interactions"

\* C27: the interactions metric counts the stored shelf_interaction events:
\* calculate_uplift(metric=interactions) reports their number in the promo
\* window and in the baseline, and detect_spikes(metric=interactions)
\* buckets the same events.
C27_InteractionsCountShelfEvents ==
  /\ (UpliftAnswered /\ report.metric = "interactions") =>
       /\ report.promo_value
            = CountOf("shelf_interaction", report.from_dt, report.to_dt)
       /\ report.baseline_value
            = CountOf("shelf_interaction",
                      report.from_dt - 86400 * report.baseline_days,
                      report.from_dt - 1)
  /\ SpikesInteractions =>
       SumValues(report.rows)
         = CountOf("shelf_interaction", report.from_dt, report.to_dt)

\* C28: when the baseline value is 0, calculate_uplift reports uplift 0 and
\* marks the result as undefined: the result carries a key that the eight
\* keys of every result do not include.
C28_ZeroBaselineIsMarked ==
  (UpliftAnswered /\ report.baseline_value = 0) =>
    /\ report.uplift_percent = 0
    /\ report.keys \ UpliftKeys # {}

\* =============================================================== peak hour
\* the hours entrances are stored in
PeakSlots == {0, 3600, 7200, 10800}
\* windows from the first hour to the end of a later one
PeakWindows == {<<0, h + 3599>> : h \in PeakSlots}

\* max(hourly, key=footfall) over the last maximal row
last_max(hourly) ==
  hourly[CHOOSE i \in DOMAIN hourly :
           /\ \A j \in DOMAIN hourly : hourly[j].value <= hourly[i].value
           /\ \A j \in DOMAIN hourly : j > i => hourly[j].value < hourly[i].value]
\* max(hourly, key=footfall): the first row whose footfall no row exceeds
first_max(hourly) ==
  hourly[CHOOSE i \in DOMAIN hourly :
           /\ \A j \in DOMAIN hourly : hourly[j].value <= hourly[i].value
           /\ \A j \in DOMAIN hourly : j < i => hourly[j].value < hourly[i].value]

\* peak_hour: the hour row of footfall_by_hour with the most footfall
peak_hour(rows, store_id, from_dt, to_dt) ==
  LET hourly == footfall_by_hour(rows, store_id, from_dt, to_dt)
  IN  IF hourly = <<>> THEN [peak_hour |-> None, footfall |-> 0]
      ELSE [peak_hour |-> first_max(hourly).bucket,
            footfall |-> first_max(hourly).value]

QueryPeakHour(store_id, w) ==
  /\ report = NoReport
  /\ LET peak == peak_hour(events, store_id, w[1], w[2])
     IN  report' = [NoReport EXCEPT !.fn = "peak_hour", !.store_id = store_id,
                      !.from_dt = w[1], !.to_dt = w[2],
                      !.peak_hour = peak.peak_hour, !.footfall = peak.footfall]
  /\ UNCHANGED <<events, outside_events>>

NextPeak ==
  \/ \E slot \in PeakSlots : insert_event("entrance", slot)
  \/ \E s \in Stores, w \in PeakWindows : QueryPeakHour(s, w)
  \/ Answered

SpecPeak == Init /\ [][NextPeak]_vars

PeakAnswered == report.fn = "peak_hour"

\* the footfall of the hour that starts at h, for the answered query
HourFootfall(h) ==
  Cardinality({e \in FootfallEvents(report.store_id, report.from_dt, report.to_dt) :
                 h <= e.ts /\ e.ts < h + 3600})

\* C29: peak_hour returns the hour bucket with the maximum footfall of
\* footfall_by_hour; on ties the earliest; with no footfall it returns no
\* hour and footfall 0.
C29_PeakHourIsEarliestMaximum ==
  PeakAnswered =>
    IF \A h \in PeakSlots : HourFootfall(h) = 0
    THEN report.peak_hour = None /\ report.footfall = 0
    ELSE /\ report.peak_hour \in PeakSlots
         /\ report.footfall = HourFootfall(report.peak_hour)
         /\ \A h \in PeakSlots : HourFootfall(h) <= report.footfall
         /\ \A h \in PeakSlots :
              h < report.peak_hour => HourFootfall(h) < report.footfall

\* two hours tie for the maximum and the earlier one is returned
C29_Witness ==
  /\ PeakAnswered
  /\ \E h \in PeakSlots :
       /\ h > report.peak_hour
       /\ report.peak_hour # None
       /\ HourFootfall(h) = report.footfall
       /\ report.footfall > 0

\* nothing entered in the window: no hour, footfall 0
C29_WitnessEmpty ==
  /\ PeakAnswered
  /\ events # {}
  /\ report.peak_hour = None
  /\ report.footfall = 0

\* ------------------------------------------------------------- claim C30
RECURSIVE Pow(_, _)
Pow(b, n) == IF n = 0 THEN 1 ELSE b * Pow(b, n - 1)

\* min(0.5 * 1.5^n, 60) seconds in units of 2^-14 s
ClaimedDelay(n) == Min((8192 * Pow(3, n)) \div Pow(2, n), 60 * 16384)

\* the last post_with_retry call made at most max_retries attempts, stopped
\* at its first 2xx, and slept min(0.5 * 1.5^n, 60) s after its n-th failed
\* attempt
RetryAndBackoff ==
  /\ last_post.attempts <= flush_retries
  /\ last_post.attempts = Len(last_post.answers)
  /\ \A i \in DOMAIN last_post.answers :
       last_post.answers[i] = "2xx" => i = last_post.attempts
  /\ last_post.ok <=>
       (last_post.attempts > 0 =>
          last_post.answers[last_post.attempts] = "2xx")
  /\ ~last_post.ok => last_post.attempts = flush_retries
  /\ Len(last_post.delays) =
       Cardinality({i \in DOMAIN last_post.answers : last_post.answers[i] # "2xx"})
  /\ \A n \in DOMAIN last_post.delays :
       last_post.delays[n] = ClaimedDelay(n - 1)

\* a step of the flusher whose POST of the batch failed for good: the batch
\* left buf without being posted, or the thread ended
FailedBatch ==
  /\ fpc = "flush"
  /\ fpc' # "flush"
  /\ posted' = posted
  /\ buf' # buf \/ fpc' = "dead"

\* the batch of a flush step
Batch == SubSeq(buf, 1, Min(MAX_BATCH, Len(buf)))

\* the whole batch goes to the end of the spool, one line per event, and the
\* flusher goes on with its loop
SpooledAndContinues ==
  FailedBatch =>
    /\ ~last_post'.ok
    /\ spool' = spool \o [i \in DOMAIN Batch |-> dumps(Batch[i])]
    /\ buf' = SubSeq(buf, Len(Batch) + 1, Len(buf))
    /\ fpc' = "drain"

\* C30: for one batch the dispatcher makes at most max_retries POST attempts
\* and stops at the first 2xx; the delay after the n-th failed attempt (n
\* from 0) is min(0.5 * 1.5^n, 60) seconds; after the last failed attempt the
\* whole batch is appended to the spool file, one JSON object per line, and
\* the dispatcher continues with the next events.
C30_RetryThenSpool ==
  /\ []RetryAndBackoff
  /\ [][SpooledAndContinues]_vars

\* ------------------------------------------------------------- claim C31
\* the step of the dispatcher that looks at its batch
FlushStep == fpc = "flush" /\ fpc' # "flush"

\* the events of the batch a flush sends
Sent == SubSeq(buf, 1, Min(MAX_BATCH, Len(buf)))

\* the batch was sent: it was answered 2xx, or written to the spool, or the
\* write to the spool raised
BatchSent ==
  \/ posted' = posted \o Sent /\ posted' # posted
  \/ spool' = enqueue_jsonl(spool, Sent) /\ spool' # spool
  \/ fpc' = "dead"

FlushWhenDue ==
  FlushStep =>
    IF (Len(buf) >= MAX_BATCH \/ overdue) /\ buf # <<>>
      THEN /\ BatchSent
           /\ Len(Sent) \in 1..MAX_BATCH
           /\ fpc' # "dead" =>
                /\ buf' = SubSeq(buf, MAX_BATCH + 1, Len(buf))
                /\ ~overdue'
      ELSE UNCHANGED <<buf, posted, spool, overdue>>

\* C31: a pass of the dispatcher sends its batch exactly when the batch holds
\* MAX_BATCH events or BATCH_SECONDS have passed since the last flush, and
\* the batch is not empty; what it sends is the first MAX_BATCH events at
\* most, and the events after them stay in the batch.
C31_FlushWhenFullOrDue ==
  /\ [][FlushWhenDue]_vars
  /\ [](Len(buf) <= MAX_BATCH)

\* a batch smaller than MAX_BATCH has been sent on time, and nothing else
C31_Witness ==
  /\ Len(posted) = 1
  /\ spool = <<>>
  /\ buf = <<>>
  /\ MAX_BATCH > 1
  /\ fpc = "drain"

\* a full batch has been sent before its time was up
C31_WitnessFull ==
  /\ Len(posted) = MAX_BATCH
  /\ ~post_failed
  /\ ~overdue
  /\ last_post.ok
  /\ fpc = "drain"

\* ------------------------------------------------- claims C35 and C36
\* the events that have been put on the channel
OnChannel == Range(out_q) \cup taken

\* event e is held by the pipeline: in the channel, in the dispatcher's
\* batch, or in the spool file (the rows drained for a replay are back in
\* the file, or posted, when the pass that drained them ends)
Held(e) == e \in Range(out_q) \/ e \in Range(buf) \/ InSpool(e)

\* C35: while the process runs, every event that was put on the channel and
\* has not been answered 2xx is in the channel, in the batch or in the spool.
C35_NoLossInPipeline ==
  main_pc # "exited" =>
    \A e \in OnChannel : WasPosted(e) \/ Held(e)

\* the same, for as long as the dispatcher thread has not died of an I/O error
C35_NoLossWhileDispatcherLives ==
  (main_pc # "exited" /\ fpc # "dead") =>
    \A e \in OnChannel : WasPosted(e) \/ Held(e)

\* what drain_jsonl(path, n) does to the spool file as it is now
DrainSplitsFile(n) ==
  LET d == drain_jsonl(spool, n)
  IN  /\ Len(d.rows) = Min(n, Len(spool))
      /\ \A i \in 1..Len(d.rows) : dumps(d.rows[i]) = spool[i]
      /\ [i \in 1..Len(d.rows) |-> dumps(d.rows[i])] \o d.rest = spool

\* how often a line occurs in a file
Count(line, file) == Cardinality({i \in 1..Len(file) : file[i] = line})

SameLines(f, g) == \A line \in Range(f) \cup Range(g) : Count(line, f) = Count(line, g)

\* a pass of the dispatcher over the spool that it survives: rows answered
\* 2xx leave the file, rows not answered are all back in it
DrainStep ==
  (fpc = "drain" /\ fpc' = "get") =>
    IF posted' # posted
      THEN /\ posted' = posted \o drain_jsonl(spool, max_rows).rows
           /\ spool' = SubSeq(spool, max_rows + 1, Len(spool))
      ELSE SameLines(spool', spool)

EventsOfOld(t) ==
  {i \in DOMAIN frame_out' :
     frame_out'[i].payload.person_id = tracks[t].person_id}

\* what a frame does to the tracks it has not seen: one older than max_age
\* is removed, no other is, and a removed track emits nothing
GarbageCollection ==
  /\ \A t \in TrackIds \ Seen :
       tracks[t] # NoTrack =>
         /\ tracks'[t] = NoTrack <=> now' - tracks[t].last_seen > max_age
         /\ tracks'[t] = NoTrack => EventsOfOld(t) = {}
         /\ tracks'[t] # NoTrack => tracks'[t] = tracks[t]
  /\ Seen = {} => frame_out' = <<>>

\* C32: a track unseen for more than 10 s is removed from the table, and its
\* removal emits no event, open intervals or not; a frame without detections
\* emits no event.
C32_TrackGarbageCollection ==
  /\ [](\A t \in TrackIds :
          tracks[t] # NoTrack => now - tracks[t].last_seen <= max_age)
  /\ [][GarbageCollection]_vars

\* track t was created by the first frame below the entrance line, which is
\* inside a zone and a queue polygon, and removed by the second frame, which
\* emitted nothing
C32_Witness ==
  \E t \in TrackIds :
    /\ frames = 2
    /\ tracks[t] = NoTrack
    /\ crossings[t] = 1
    /\ frame_out = <<>>

\* C37: the frame that creates a track emits no entrance event about it.
C37_NoEntranceOnFirstFrame ==
  [][\A t \in TrackIds :
       (tracks[t] = NoTrack /\ tracks'[t] # NoTrack)
         => EventsAbout(t, "entrance") = {}]_vars

\* a zone or shelf the track is in before and after the step keeps its
\* enter time
IntervalsKept ==
  \A t \in Seen :
    tracks[t] # NoTrack =>
      /\ \A z \in tracks[t].current_zones \cap tracks'[t].current_zones :
           tracks'[t].zone_enter_ts[z] = tracks[t].zone_enter_ts[z]
      /\ \A z \in tracks[t].current_shelves \cap tracks'[t].current_shelves :
           tracks'[t].shelf_enter_ts[z] = tracks[t].shelf_enter_ts[z]

\* C38: after every frame the keys of zone_enter_ts are the track's
\* current_zones and the keys of shelf_enter_ts its current_shelves; a zone
\* or shelf the track stays in keeps its enter time when the track enters or
\* leaves another.
C38_IndependentIntervals ==
  /\ [](\A t \in TrackIds :
          tracks[t] # NoTrack =>
            /\ DOMAIN tracks[t].zone_enter_ts = tracks[t].current_zones
            /\ DOMAIN tracks[t].shelf_enter_ts = tracks[t].current_shelves)
  /\ [][IntervalsKept]_vars

\* a track that was in zone_1 and zone_2 has left zone_1 and is still in
\* zone_2, with the enter time of an earlier frame
C38_Witness ==
  \E t \in TrackIds :
    /\ tracks[t] # NoTrack
    /\ tracks[t].prev_centroid = <<50, 60>>
    /\ tracks[t].current_zones = {"zone_2"}
    /\ tracks[t].zone_enter_ts["zone_2"] < tracks[t].last_seen
    /\ tracks[t].last_seen = now

\* ------------------------------------------------------------- claim C33
\* frames of a run of a worker started with any of the configurations
CapFrames == 2

CapsFrame == FrameWithin(CapFrames)

NextCaps == CapsFrame

SpecCaps == InitCaps /\ [][NextCaps]_vars

\* the capability whose state machine emits events of a type
CapabilityOf(etype) ==
  CASE etype = "entrance" -> "entrance"
    [] etype = "zone_dwell" -> "zones"
    [] etype = "shelf_interaction" -> "shelves"
    [] etype = "queue_presence" -> "queue"

Has(capability) == capability \in worker_cfg.capabilities

\* the part of a track a state machine writes is as PersonTrack made it
Untouched(track, fields) ==
  \A f \in fields :
    track[f] = PersonTrack(track.track_id, track.camera_id, 0)[f]

\* C33: a worker emits no event of a type whose capability its camera lacks,
\* and the state machine of a lacking capability leaves the track as it was
\* created; a camera with the entrance capability whose entrance line has
\* fewer than two points emits no entrance event.
C33_CapabilityGating ==
  /\ \A e \in EventsOut :
       /\ Has(CapabilityOf(e.type))
       /\ e.type = "entrance" => Len(worker_cfg.geometry.entrance) >= 2
  /\ \A t \in TrackIds :
       tracks[t] # NoTrack =>
         /\ ~Has("entrance") => Untouched(tracks[t], {"entrance_crossed"})
         /\ ~Has("zones") =>
              Untouched(tracks[t], {"current_zones", "zone_enter_ts"})
         /\ ~Has("shelves") =>
              Untouched(tracks[t], {"current_shelves", "shelf_enter_ts"})
         /\ ~Has("queue") =>
              Untouched(tracks[t], {"in_queue", "queue_id", "queue_enter_ts"})

\* a camera without the zones capability has reported a shelf interaction of
\* a track that was inside zone_2 all the while and has moved into zone_1
C33_Witness ==
  /\ ~Has("zones")
  /\ \E e \in EventsOut : e.type = "shelf_interaction"
  /\ \E t \in TrackIds :
       /\ tracks[t] # NoTrack
       /\ tracks[t].prev_centroid = <<80, 60>>
       /\ tracks[t].centroid = <<50, 60>>

\* a camera with the entrance capability and a one-point entrance line has
\* seen a track move from above to below where the line would be
C33_WitnessNoLine ==
  /\ Has("entrance")
  /\ Len(worker_cfg.geometry.entrance) = 1
  /\ \E t \in TrackIds :
       /\ tracks[t] # NoTrack
       /\ tracks[t].prev_centroid = <<50, 40>>
       /\ tracks[t].centroid = <<50, 60>>

\* ------------------------------------------------------------- claim C34
\* pixel coordinates run from 0 to MaxCoord
MaxCoord == 2

Points == (0..MaxCoord) \X (0..MaxCoord)

\* one call of crossing_direction
CallCrossingDirection ==
  /\ report = NoReport
  /\ \E prev \in Points, curr \in Points, p1 \in Points, p2 \in Points :
       report' = [NoReport EXCEPT
                    !.fn = "crossing_direction",
                    !.args = <<prev, curr, p1, p2>>,
                    !.direction = crossing_direction(prev, curr, p1, p2)]
  /\ UNCHANGED <<events, outside_events>>

NextCross == CallCrossingDirection

SpecCross == Init /\ [][NextCross]_vars

Vec(a, b) == <<b[1] - a[1], b[2] - a[2]>>

Cross(u, v) == u[1] * v[2] - u[2] * v[1]

\* the arguments of the call that was answered
CallPrev == report.args[1]
CallCurr == report.args[2]
CallP1 == report.args[3]
CallP2 == report.args[4]

\* line vector x movement vector of the call
CallCross == Cross(Vec(CallP1, CallP2), Vec(CallPrev, CallCurr))

\* C34: crossing_direction returns "in" exactly when the cross product of
\* the line vector p2 - p1 and the movement vector curr - prev is positive,
\* "out" otherwise; when the cross product is not zero, the call with prev
\* and curr swapped returns the other direction.
C34_DirectionAntisymmetric ==
  report.fn = "crossing_direction" =>
    /\ report.direction \in {"in", "out"}
    /\ report.direction = "in" <=> CallCross > 0
    /\ CallCross # 0 =>
         /\ crossing_direction(CallCurr, CallPrev, CallP1, CallP2)
              \in {"in", "out"}
         /\ crossing_direction(CallCurr, CallPrev, CallP1, CallP2)
              # report.direction

\* a movement across a line that is neither horizontal nor vertical, answered
\* "in", whose reverse is answered "out"
C34_Witness ==
  /\ report.fn = "crossing_direction"
  /\ report.direction = "in"
  /\ CallCross > 0
  /\ line_crossing(CallPrev, CallCurr, CallP1, CallP2)
  /\ CallP1[1] # CallP2[1] /\ CallP1[2] # CallP2[2]
  /\ crossing_direction(CallCurr, CallPrev, CallP1, CallP2) = "out"

\* ------------------------------------------------------------- claim C39
\* the footfall events of a store whose camera is an entrance camera of
\* that same store
OwnCameraFootfall(store_id, from_dt, to_dt) ==
  {e \in FootfallEvents(store_id, from_dt, to_dt) :
     \E c \in cameras :
       /\ c.camera_id = e.camera_id
       /\ c.is_entrance
       /\ c.store_id = store_id}

\* C39: the footfall reported for a store counts an entrance event only if
\* the event is stored under that store and its camera is an entrance camera
\* of that store.
C39_FootfallJoinRespectsTenancy ==
  report.fn = "footfall_by_hour" =>
    SumValues(report.rows) =
      Cardinality(OwnCameraFootfall(report.store_id, report.from_dt,
                                    report.to_dt))

\* ===================================================================
\* EdgeClient (edge_client_v2.py): events that could not be sent wait in
\* offline_queue and are sent again, a slice at a time, after a send that
\* was answered 200.
\* ===================================================================

\* self.max_queue_size = 1000 and the slice offline_queue[:100], scaled down
max_queue_size == 3
flush_slice == 2
\* events of one send_events call
MaxSend == 2

ClientEvents == {"e1", "e2"}

EventLists == UNION {[1..n -> ClientEvents] : n \in 0..MaxSend}

\* what requests.post can do
Answers ==
  {[made |-> TRUE, raised |-> FALSE, status_code |-> c] : c \in {200, 204, 500}}
    \cup {[made |-> TRUE, raised |-> TRUE, status_code |-> 0]}

\* `resp.status_code == 200` inside the try block
is_200(resp) == ~resp.raised /\ resp.status_code = 200

RECURSIVE queue_offline(_, _)
\* queue_offline: each event is appended while the queue is below its bound
queue_offline(queue, evts) ==
  IF evts = <<>> THEN queue
  ELSE queue_offline(IF Len(queue) < max_queue_size
                       THEN Append(queue, Head(evts)) ELSE queue,
                     Tail(evts))

\* the queue after a flush that drops the slice whatever the answer
drop_slice(queue, resp) ==
  SubSeq(queue, Min(flush_slice, Len(queue)) + 1, Len(queue))
\* flush_offline_queue after its POST of to_send = offline_queue[:100]
flushed(queue, resp) ==
  IF is_200(resp)
    THEN SubSeq(queue, Min(flush_slice, Len(queue)) + 1, Len(queue))
    ELSE queue

\* flush_offline_queue: nothing is posted for an empty queue
flush_offline_queue(resp) ==
  IF offline_queue = <<>>
    THEN [queue |-> offline_queue, flush |-> NoResponse]
    ELSE [queue |-> flushed(offline_queue, resp), flush |-> resp]

\* send_events(events): the POST is answered `resp`; the POST of the flush it
\* may start is answered `flush_resp`
send_events(evts, resp, flush_resp) ==
  /\ IF evts = <<>>
       THEN /\ UNCHANGED offline_queue
            /\ client_call' = [fn |-> "send_events", events |-> evts,
                               post |-> NoResponse, flush |-> NoResponse]
       ELSE IF is_200(resp)
         THEN /\ offline_queue' = flush_offline_queue(flush_resp).queue
              /\ client_call' = [fn |-> "send_events", events |-> evts,
                                 post |-> resp,
                                 flush |-> flush_offline_queue(flush_resp).flush]
         ELSE /\ offline_queue' = queue_offline(offline_queue, evts)
              /\ client_call' = [fn |-> "send_events", events |-> evts,
                                 post |-> resp, flush |-> NoResponse]
  /\ UNCHANGED outside_client

\* a direct call of flush_offline_queue
FlushOfflineQueue(resp) ==
  /\ offline_queue' = flush_offline_queue(resp).queue
  /\ client_call' = [fn |-> "flush_offline_queue", events |-> <<>>,
                     post |-> NoResponse,
                     flush |-> flush_offline_queue(resp).flush]
  /\ UNCHANGED outside_client

NextClient ==
  \/ \E evts \in EventLists, resp \in Answers, flush_resp \in Answers :
       send_events(evts, resp, flush_resp)
  \/ \E resp \in Answers : FlushOfflineQueue(resp)

SpecClient == Init /\ [][NextClient]_vars

\* ------------------------------------------------------------- claim C40
\* the call of this step has posted a slice of the queue
FlushPosted == client_call'.flush.made

\* what a step may do to the queue: a flush answered 200 removes the slice
\* it posted, the first flush_slice events at most; any other flush, and a
\* call that posts no slice, removes nothing
QueueStep ==
  IF FlushPosted /\ is_200(client_call'.flush)
    THEN /\ offline_queue # <<>>
         /\ \E n \in 1..flush_slice :
              /\ n = Min(flush_slice, Len(offline_queue))
              /\ offline_queue' = SubSeq(offline_queue, n + 1, Len(offline_queue))
    ELSE /\ Len(offline_queue') >= Len(offline_queue)
         /\ SubSeq(offline_queue', 1, Len(offline_queue)) = offline_queue
         /\ FlushPosted => offline_queue' = offline_queue

\* C40: the offline queue never holds more than max_queue_size events;
\* flush_offline_queue removes only the slice it posted, at most 100 events
\* from the front, and only when that POST was answered 200; on any other
\* status and on an exception the queue is unchanged.
C40_OfflineQueueBounded ==
  /\ [](Len(offline_queue) <= max_queue_size)
  /\ [][QueueStep]_vars

\* a full queue, longer than a slice, was flushed after a send answered 200:
\* the slice is gone and the rest is still queued
C40_Witness ==
  /\ client_call.fn = "send_events"
  /\ is_200(client_call.post)
  /\ is_200(client_call.flush)
  /\ Len(offline_queue) = max_queue_size - flush_slice
  /\ offline_queue # <<>>

\* a send that was not answered 200 has found the queue full
C40_WitnessFull ==
  /\ client_call.fn = "send_events"
  /\ client_call.post.made
  /\ ~is_200(client_call.post)
  /\ Len(offline_queue) = max_queue_size
  /\ \E i \in DOMAIN client_call.events :
       \A j \in DOMAIN offline_queue : offline_queue[j] # client_call.events[i]

====
